---- MODULE Spec2Model ----
(***************************************************************************)
(* Model of the WebSocket relay of voice-chat-poc/server (the proxy that   *)
(* sits between a browser client and the OpenAI Realtime API).             *)
(*                                                                         *)
(* One relay channel is created per accepted client connection.  It owns   *)
(* two sockets of the `ws` library (clientWs, openaiWs), a messageBuffer   *)
(* and the flag sessionCreated.  Every handler registered in the           *)
(* 'connection' callback is one action; a handler runs to completion.      *)
(* The sockets follow ws 8: readyState is CONNECTING, OPEN, CLOSING or     *)
(* CLOSED; close() on an OPEN socket makes it CLOSING; send() on a socket  *)
(* that is CLOSING or CLOSED discards the data without throwing; an        *)
(* exception that escapes a handler is an uncaught exception, which        *)
(* terminates the Node process (the file installs no handler for it).      *)
(*                                                                         *)
(* The second part models one connected session of the browser client      *)
(* (voice-chat-poc/src): OpenAIManager's socket and send operations, the   *)
(* AudioBridge handler of tool calls with executeFunctionCall, and the     *)
(* playback queue of LivekitManager.  A browser WebSocket delivers no      *)
(* message once it has left OPEN; an async handler runs up to its first    *)
(* await in one step and resumes in a later one.                           *)
(***************************************************************************)
EXTENDS Integers, Sequences, FiniteSets, TLC

\* The connections that may be accepted, each at most once.
Chans == {"A", "B"}

\* Bounds of the model: messages delivered in one run by the client links
\* and by the upstream links, when one connection is accepted (Spec) and
\* when every connection of Chans is accepted (SpecTwo).
MaxClientMsgs == 2
MaxUpMsgs == 2
MaxClientMsgsTwo == 2
MaxUpMsgsTwo == 2

\* Bounds of the browser client's model: tool calls requested in one
\* session, microphone chunks sent, audio deltas received.
MaxCalls == 2
MaxAudioSends == 1
MaxDeltas == 3
MaxGreetingCalls == 2
MaxConnects == 2
MaxConfigureCalls == 2
MaxAttempts == 2
MaxSessionUpdates == 2

\* Bounds of the conversions: length of the byte buffer, length of the
\* sample array, and the grid of sample values (a sample is n /
\* SampleDenominator, for n from -2 to 2 times the denominator).
MaxBytes == 4
MaxSamples == 2
SampleDenominator == 10

\* 0x8000 and 0x7fff
NegativeFullScale == 32768
PositiveFullScale == 32767

\* Message types the upstream service sends (envelope table); the last one
\* stands for every type the relay does not look at.
UpTypes == {"session.created", "session.updated", "error", "response.audio.delta"}

VARIABLES
  connectionCount,    \* let connectionCount = 0
  connectionId,       \* const connectionId of each channel, 0 = not accepted
  clientReadyState,   \* clientWs.readyState
  clientInbound,      \* clientWs can still deliver 'message' events
  upReadyState,       \* openaiWs.readyState
  upInbound,          \* openaiWs can still deliver 'message' events
  upOpened,           \* openaiWs has emitted 'open'
  messageBuffer,      \* const messageBuffer = []
  sessionCreated,     \* let sessionCreated = false
  sentUp,             \* data handed to openaiWs.send, in order
  sentDown,           \* data handed to clientWs.send, in order
  clientCloseCalls,   \* arguments of each clientWs.close(...) call
  upCloseCalls,       \* number of openaiWs.close() calls
  rcvdClient,         \* data delivered by clientWs 'message', in order
  rcvdUp,             \* data delivered by openaiWs 'message', in order
  flushCount,         \* times the buffered messages were sent
  sendOrder,          \* destinations of the send calls of the handler that
                      \* sent the buffered messages, in program order
  crashed,            \* an exception escaped a handler: process terminated
  load                \* what the environment offers in this run (fixed)

\* The browser client (OpenAIManager, AudioBridge, LivekitManager)
VARIABLES
  bws,                \* OpenAIManager.ws: "null", or the socket's readyState
  bsent,              \* messages handed to ws.send, in order
  calls,              \* functionCall events handled by the bridge, in order
  bthrown,            \* an exception or rejection escaped a handler
  audioContext,       \* LivekitManager.audioContext is set
  audioQueue,         \* LivekitManager.audioQueue
  isPlaying,          \* LivekitManager.isPlaying
  playing,            \* buffer sources started and not yet ended
  started,            \* buffers handed to source.start(), in order
  deltas,             \* response.audio.delta events received, in order
  audioStatus,        \* text of the audio-status element, as a state name
  sessionReady,       \* OpenAIManager.sessionReady
  eventHandlers,      \* handlers registered for 'sessionReady', in order
  greetingCalls,      \* sendGreeting calls made by the application
  sessionUpdates      \* session.updated events received

\* The conversions of audio data, applied to one input
VARIABLES
  codecStep,          \* "idle", "input", "encoded" or "decoded"
  audioData,          \* bytes given to sendAudio
  base64Audio,        \* the text sendAudio puts in the message
  decodedBytes,       \* bytes playAudio gets from that text
  pcmStep,            \* "idle", "input", "encoded" or "decoded"
  float32Array,       \* samples given to floatTo16BitPCM
  int16Array,         \* its result
  float32Back         \* result of int16ToFloat32 on that

\* One request to the room-creation endpoint (api/rooms/create.ts)
VARIABLES
  req,                \* the request and what the services will answer
  handlerStep,        \* position of the handler
  roomCreated,        \* roomService.createRoom has succeeded
  agentDispatched,    \* agentDispatch.createDispatch has succeeded
  tokenIssued,        \* token.toJwt() has succeeded
  res                 \* the response sent, status 0 = none yet

\* The application (main.ts): the connect and disconnect buttons
VARIABLES
  isConnected,        \* let isConnected = false
  openaiManager,      \* the variable openaiManager: "null" or "set"
  connectStep,        \* the await at which handleConnect is suspended
  connectBtn,         \* disabled and style.display of the connect button
  room,               \* LivekitManager.room: "none", "new", "connected", "disconnected"
  timers,             \* greeting timers set and not yet fired
  connects,           \* handleConnect calls that passed the isConnected check
  configureCalls      \* outcome of each configureSession call, in order

appVars == <<isConnected, openaiManager, connectStep, connectBtn, room, timers,
             connects, configureCalls>>

\* The VoiceChat component (frontend) and the room of its last connect
VARIABLES
  connectionStatus,   \* useState status
  error,              \* useState error: "null" or "set"
  roomState,          \* useState room: 0 for null, or the number of the
                      \* connect call that made the Room
  rooms,              \* state of the Room made by each connect call:
                      \* "none", "new", "connected" or "disconnected"
  connectPos,         \* the await at which connect is suspended
  primaryAgentRef,    \* primaryAgentRef.current: "null" or an identity
  remoteParticipants, \* identities of newRoom.remoteParticipants, for the
                      \* Room of the last connect call
  subscribed,         \* its participants whose audio track is subscribed
  attached,           \* its participants whose audio track has an element
  attempts            \* connect calls

vcVars == <<connectionStatus, error, roomState, rooms, connectPos, primaryAgentRef,
            remoteParticipants, subscribed, attached, attempts>>

sessionVars == <<sessionReady, eventHandlers, greetingCalls, sessionUpdates>>

codecVars == <<codecStep, audioData, base64Audio, decodedBytes>>

pcmVars == <<pcmStep, float32Array, int16Array, float32Back>>

roomVars == <<req, handlerStep, roomCreated, agentDispatched, tokenIssued, res>>

pureVars == <<codecVars, pcmVars, roomVars, appVars, vcVars>>

coreVars == <<bws, bsent, calls, bthrown, audioContext, audioQueue,
              isPlaying, playing, started, deltas>>

browserVars == <<coreVars, audioStatus, sessionVars, pureVars>>

relayVars == <<connectionCount, connectionId, clientReadyState, clientInbound,
               upReadyState, upInbound, upOpened, messageBuffer, sessionCreated,
               sentUp, sentDown, clientCloseCalls, upCloseCalls, rcvdClient,
               rcvdUp, flushCount, sendOrder, crashed, load>>

linkVars == <<clientReadyState, clientInbound, upReadyState, upInbound,
              upOpened, clientCloseCalls, upCloseCalls>>
dataVars == <<messageBuffer, sessionCreated, sentUp, sentDown, rcvdClient,
              rcvdUp, flushCount, sendOrder>>

vars == <<relayVars, browserVars>>

----------------------------------------------------------------------------
\* Sequences

IsPrefix(s, t) == Len(s) <= Len(t) /\ SubSeq(t, 1, Len(s)) = s

Last(s) == s[Len(s)]

RECURSIVE SumLen(_, _)
SumLen(f, S) ==
  IF S = {} THEN 0
  ELSE LET c == CHOOSE x \in S : TRUE IN Len(f[c]) + SumLen(f, S \ {c})

RECURSIVE Reverse(_)
Reverse(s) == IF s = <<>> THEN <<>> ELSE Append(Reverse(Tail(s)), Head(s))

----------------------------------------------------------------------------
\* Messages.  A message is the raw data of one WebSocket frame: who produced
\* it, its position in that producer's stream, whether its text is JSON, and
\* the value of the type field of that JSON.

ClientMsg(c, n, json) == [from |-> c, n |-> n, json |-> json, type |-> "client"]

UpMsg(c, n, json, type) == [from |-> c, n |-> n, json |-> json, type |-> type]

\* JSON.parse(data.toString()) returns normally
JSONParses(data) == data.json

\* msg.type of the parsed message
MsgType(data) == data.type

\* ws.send(data): queued on an OPEN socket, discarded on a CLOSING or CLOSED
\* one (the error goes to the optional callback, nothing is thrown).
WsSend(readyState, sent, data) ==
  IF readyState = "OPEN" THEN Append(sent, data) ELSE sent

\* messageBuffer.forEach(bufferedMsg => openaiWs.send(bufferedMsg))
RECURSIVE SendAll(_, _, _)
SendAll(readyState, sent, buf) ==
  IF buf = <<>> THEN sent
  ELSE SendAll(readyState, WsSend(readyState, sent, Head(buf)), Tail(buf))

\* ws.close(): an OPEN socket starts the closing handshake
WsClose(readyState) == IF readyState = "OPEN" THEN "CLOSING" ELSE readyState

----------------------------------------------------------------------------
\* State of the browser client when handleConnect has completed: the managers
\* are constructed, the socket to the relay is open, the AudioContext exists
\* and the bridge handlers are registered.  The greeting timers pending are
\* the one of this handleConnect and those of earlier connections that have
\* not fired yet (a timer is never cleared).
BrowserInit ==
  /\ bws = "OPEN"
  /\ bsent = <<>>
  /\ calls = <<>>
  /\ bthrown = FALSE
  /\ audioContext = TRUE
  /\ audioQueue = <<>>
  /\ isPlaying = FALSE
  /\ playing = {}
  /\ started = <<>>
  /\ deltas = <<>>
  /\ audioStatus = "idle"
  /\ sessionReady = FALSE
  /\ eventHandlers = <<>>
  /\ greetingCalls = 0
  /\ sessionUpdates = 0
  /\ isConnected = TRUE
  /\ openaiManager = "set"
  /\ connectStep = "idle"
  /\ connectBtn = [disabled |-> TRUE, display |-> "none"]
  /\ room = "connected"
  /\ timers = MaxGreetingCalls
  /\ connects = 1
  /\ configureCalls = <<"sent">>

\* No conversion in progress
CodecIdle ==
  /\ codecStep = "idle"
  /\ audioData = <<>>
  /\ base64Audio = <<>>
  /\ decodedBytes = <<>>

PcmIdle ==
  /\ pcmStep = "idle"
  /\ float32Array = <<>>
  /\ int16Array = <<>>
  /\ float32Back = <<>>

\* The VoiceChat component as mounted
VoiceChatIdle ==
  /\ connectionStatus = "disconnected"
  /\ error = "null"
  /\ roomState = 0
  /\ rooms = [n \in 1..MaxAttempts |-> "none"]
  /\ connectPos = "idle"
  /\ primaryAgentRef = "null"
  /\ remoteParticipants = {}
  /\ subscribed = {}
  /\ attached = {}
  /\ attempts = 0

\* No request to the endpoint
RoomsIdle ==
  /\ req = [method |-> "none"]
  /\ handlerStep = "idle"
  /\ roomCreated = FALSE
  /\ agentDispatched = FALSE
  /\ tokenIssued = FALSE
  /\ res = [status |-> 0, body |-> "none"]

InitWith(ld) ==
  /\ load = ld
  /\ connectionCount = 0
  /\ connectionId = [c \in Chans |-> 0]
  /\ clientReadyState = [c \in Chans |-> "NONE"]
  /\ clientInbound = [c \in Chans |-> FALSE]
  /\ upReadyState = [c \in Chans |-> "NONE"]
  /\ upInbound = [c \in Chans |-> FALSE]
  /\ upOpened = [c \in Chans |-> FALSE]
  /\ messageBuffer = [c \in Chans |-> <<>>]
  /\ sessionCreated = [c \in Chans |-> FALSE]
  /\ sentUp = [c \in Chans |-> <<>>]
  /\ sentDown = [c \in Chans |-> <<>>]
  /\ clientCloseCalls = [c \in Chans |-> <<>>]
  /\ upCloseCalls = [c \in Chans |-> 0]
  /\ rcvdClient = [c \in Chans |-> <<>>]
  /\ rcvdUp = [c \in Chans |-> <<>>]
  /\ flushCount = [c \in Chans |-> 0]
  /\ sendOrder = [c \in Chans |-> <<>>]
  /\ crashed = FALSE

\* One connection, up to MaxClientMsgs and MaxUpMsgs messages on its links;
\* from upstream every type, and on both links messages that are not JSON.
Init ==
  /\ InitWith([conns |-> 1, clientMsgs |-> MaxClientMsgs, upMsgs |-> MaxUpMsgs,
               upTypes |-> UpTypes, clientBinary |-> TRUE, upBinary |-> TRUE])
  /\ VoiceChatIdle
  /\ BrowserInit
  /\ CodecIdle /\ PcmIdle /\ RoomsIdle

\* Every connection of Chans; from the clients messages that are JSON or not,
\* from upstream session.created.
InitTwo ==
  /\ InitWith([conns |-> Cardinality(Chans), clientMsgs |-> MaxClientMsgsTwo,
               upMsgs |-> MaxUpMsgsTwo,
               upTypes |-> {"session.created"}, clientBinary |-> TRUE,
               upBinary |-> FALSE])
  /\ VoiceChatIdle
  /\ BrowserInit
  /\ CodecIdle /\ PcmIdle /\ RoomsIdle

\* Variant: the counter is read but not incremented.
NextCountNotStored(count) == count

\* Line 115: ++connectionCount (one step: handlers are not preempted)
NextCount(count) == count + 1

\* wss.on('connection'): a client connection is accepted, the upstream
\* socket is created (CONNECTING) and the channel's state is initialised.
Accept(c) ==
  /\ ~crashed
  /\ connectionId[c] = 0
  /\ connectionCount < load.conns
  /\ connectionCount' = NextCount(connectionCount)
  /\ connectionId' = [connectionId EXCEPT ![c] = connectionCount']
  /\ clientReadyState' = [clientReadyState EXCEPT ![c] = "OPEN"]
  /\ clientInbound' = [clientInbound EXCEPT ![c] = TRUE]
  /\ upReadyState' = [upReadyState EXCEPT ![c] = "CONNECTING"]
  /\ upInbound' = [upInbound EXCEPT ![c] = FALSE]
  /\ upOpened' = [upOpened EXCEPT ![c] = FALSE]
  /\ messageBuffer' = [messageBuffer EXCEPT ![c] = <<>>]
  /\ sessionCreated' = [sessionCreated EXCEPT ![c] = FALSE]
  /\ UNCHANGED <<sentUp, sentDown, clientCloseCalls, upCloseCalls,
                 rcvdClient, rcvdUp, flushCount, sendOrder, crashed, load>>
  /\ UNCHANGED browserVars


\* Variant: the test of sessionCreated is missing.
ShouldForwardUnlessConnecting(readyState, ready) == readyState = "OPEN"

\* Line 141: openaiWs.readyState === WebSocket.OPEN && sessionCreated
ShouldForward(readyState, ready) == readyState = "OPEN" /\ ready

\* Variant: one buffer at module level, shared by every connection.
PushBufferShared(buf, c, data) == [d \in DOMAIN buf |-> Append(buf[d], data)]

\* Lines 136 and 148: messageBuffer.push(data) on the buffer declared inside
\* the 'connection' callback, one per connection.
PushBuffer(buf, c, data) == [buf EXCEPT ![c] = Append(@, data)]

\* clientWs.on('message'): forward to OpenAI, or buffer until the session
\* is created.  The buffering branch parses the message for its log line
\* before pushing it; a message that is not JSON makes JSON.parse throw
\* outside any try block.
ClientOnMessage(c) ==
  /\ ~crashed
  /\ clientReadyState[c] \in {"OPEN", "CLOSING"}
  /\ clientInbound[c]
  /\ SumLen(rcvdClient, Chans) < load.clientMsgs
  /\ \E json \in {TRUE} \cup {~load.clientBinary} :
       LET data == ClientMsg(c, Len(rcvdClient[c]) + 1, json) IN
       /\ rcvdClient' = [rcvdClient EXCEPT ![c] = Append(@, data)]
       /\ IF ShouldForward(upReadyState[c], sessionCreated[c])
          THEN /\ sentUp' = [sentUp EXCEPT ![c] = WsSend(upReadyState[c], @, data)]
               /\ UNCHANGED <<messageBuffer, crashed>>
          ELSE IF JSONParses(data)
          THEN /\ messageBuffer' = PushBuffer(messageBuffer, c, data)
               /\ UNCHANGED <<sentUp, crashed>>
          ELSE /\ crashed' = TRUE
               /\ UNCHANGED <<sentUp, messageBuffer>>
  /\ UNCHANGED <<connectionCount, connectionId, linkVars, sessionCreated,
                 sentDown, rcvdUp, flushCount, sendOrder, load>>
  /\ UNCHANGED browserVars

\* Variant: session.updated is taken for a session-established type too.
IsSessionEstablished(data) == MsgType(data) \in {"session.created", "session.updated"}

\* Line 167: msg.type === 'session.created'
IsSessionCreated(data) == MsgType(data) = "session.created"

\* Variant: the loop stops one message early.
FlushDropLast(readyState, sent, buf) ==
  SendAll(readyState, sent, SubSeq(buf, 1, Len(buf) - 1))

\* Variant: the buffer is emptied from its end (pop instead of forEach).
FlushLifo(readyState, sent, buf) == SendAll(readyState, sent, Reverse(buf))

\* Lines 172-180: the buffered messages are sent in buffer order
Flush(readyState, sent, buf) == SendAll(readyState, sent, buf)

\* Variant: only messages that parse are forwarded.
ForwardDownParsed(readyState, sent, data) ==
  IF JSONParses(data) THEN WsSend(readyState, sent, data) ELSE sent

\* Variant: an error event is logged and not forwarded.
ForwardDownUnlessError(readyState, sent, data) ==
  IF JSONParses(data) /\ MsgType(data) = "error" THEN sent
  ELSE WsSend(readyState, sent, data)

\* Line 155: clientWs.send(data)
ForwardDown(readyState, sent, data) == WsSend(readyState, sent, data)

\* Variant: JSON.parse of the upstream message outside the try block.
ParseUnguarded(data) == FALSE

\* Lines 158 and 186-189: try { JSON.parse ... } catch (e) { log }
ParseGuarded(data) == TRUE

\* Variant: the buffered messages are sent before the event is forwarded.
HandlerSendsFlushFirst(data, buf) ==
  [i \in 1..Len(buf) |-> [to |-> "upstream", data |-> buf[i]]]
    \o <<[to |-> "client", data |-> data]>>

\* Lines 155 and 174-178: the send calls of the handler of a session.created
\* that finds messages in the buffer, in program order
HandlerSends(data, buf) ==
  <<[to |-> "client", data |-> data]>>
    \o [i \in 1..Len(buf) |-> [to |-> "upstream", data |-> buf[i]]]

\* Variant: the handler does not look at the client socket.
ClientCanReceiveAlways(readyState) == TRUE

\* Line 154: clientWs.readyState === WebSocket.OPEN
ClientCanReceive(readyState) == readyState = "OPEN"

\* openaiWs.on('message'): forward to the client when the client socket is
\* OPEN, then look at the type; on session.created set the flag and send the
\* buffered messages.  A message that is not JSON is caught by the try block
\* of lines 158-189 after it has been forwarded.
OpenaiOnMessage(c) ==
  /\ ~crashed
  /\ upReadyState[c] \in {"OPEN", "CLOSING"}
  /\ upInbound[c]
  /\ SumLen(rcvdUp, Chans) < load.upMsgs
  /\ \E json \in {TRUE} \cup {~load.upBinary}, type \in load.upTypes :
       LET data == UpMsg(c, Len(rcvdUp[c]) + 1, json, IF json THEN type ELSE "binary") IN
       /\ ~json => type = CHOOSE t \in load.upTypes : TRUE
       /\ rcvdUp' = [rcvdUp EXCEPT ![c] = Append(@, data)]
       /\ IF ClientCanReceive(clientReadyState[c])
          THEN /\ sentDown' = [sentDown EXCEPT ![c] = ForwardDown(clientReadyState[c], @, data)]
               /\ IF JSONParses(data) /\ IsSessionCreated(data)
                  THEN /\ sessionCreated' = [sessionCreated EXCEPT ![c] = TRUE]
                       /\ IF Len(messageBuffer[c]) > 0
                          THEN /\ sentUp' = [sentUp EXCEPT ![c] = Flush(upReadyState[c], @, messageBuffer[c])]
                               /\ messageBuffer' = [messageBuffer EXCEPT ![c] = <<>>]
                               /\ flushCount' = [flushCount EXCEPT ![c] = @ + 1]
                               /\ sendOrder' = [sendOrder EXCEPT ![c] =
                                    LET sends == HandlerSends(data, messageBuffer[c])
                                    IN [i \in 1..Len(sends) |-> sends[i].to]]
                          ELSE UNCHANGED <<sentUp, messageBuffer, flushCount, sendOrder>>
                  ELSE UNCHANGED <<sessionCreated, sentUp, messageBuffer, flushCount,
                                   sendOrder>>
               /\ crashed' = (~JSONParses(data) /\ ~ParseGuarded(data))
          ELSE UNCHANGED <<sentDown, sessionCreated, sentUp, messageBuffer,
                           flushCount, sendOrder, crashed>>
  /\ UNCHANGED <<connectionCount, connectionId, linkVars, rcvdClient, load>>
  /\ UNCHANGED browserVars

\* openaiWs.on('open'): the upstream handshake succeeded; the handler logs.
OpenaiOnOpen(c) ==
  /\ ~crashed
  /\ upReadyState[c] = "CONNECTING"
  /\ upReadyState' = [upReadyState EXCEPT ![c] = "OPEN"]
  /\ upInbound' = [upInbound EXCEPT ![c] = TRUE]
  /\ upOpened' = [upOpened EXCEPT ![c] = TRUE]
  /\ UNCHANGED <<connectionCount, connectionId, clientReadyState, clientInbound,
                 clientCloseCalls, upCloseCalls, dataVars, crashed, load>>
  /\ UNCHANGED browserVars

\* Variant: the reason string is missing.
ErrorCloseArgsNoReason == [code |-> 1011, reason |-> ""]

\* Line 203: clientWs.close(1011, 'OpenAI connection error')
ErrorCloseArgs == [code |-> 1011, reason |-> "OpenAI connection error"]

\* Line 218: clientWs.close() without arguments: the close frame carries no
\* status code and no reason (the peer reports 1005 and '').
PlainCloseArgs == [code |-> 1005, reason |-> ""]

\* openaiWs.on('error'): a failed handshake or a protocol error; ws has
\* already left OPEN/CONNECTING when it emits the event.
OpenaiOnError(c) ==
  /\ ~crashed
  /\ \/ upReadyState[c] \in {"CONNECTING", "OPEN"}
     \/ upReadyState[c] = "CLOSING" /\ upInbound[c]
  /\ upReadyState' = [upReadyState EXCEPT ![c] = "CLOSING"]
  /\ upInbound' = [upInbound EXCEPT ![c] = FALSE]
  /\ IF clientReadyState[c] = "OPEN"
     THEN /\ clientReadyState' = [clientReadyState EXCEPT ![c] = WsClose(@)]
          /\ clientCloseCalls' = [clientCloseCalls EXCEPT ![c] = Append(@, ErrorCloseArgs)]
     ELSE UNCHANGED <<clientReadyState, clientCloseCalls>>
  /\ UNCHANGED <<connectionCount, connectionId, clientInbound, upCloseCalls,
                 dataVars, crashed, load, upOpened>>
  /\ UNCHANGED browserVars

\* The upstream peer's close frame arrives: ws moves the socket to CLOSING
\* and emits nothing until the TCP connection is gone.
OpenaiCloseFrame(c) ==
  /\ ~crashed
  /\ upReadyState[c] \in {"OPEN", "CLOSING"}
  /\ upInbound[c]
  /\ upReadyState' = [upReadyState EXCEPT ![c] = "CLOSING"]
  /\ upInbound' = [upInbound EXCEPT ![c] = FALSE]
  /\ UNCHANGED <<connectionCount, connectionId, clientReadyState, clientInbound,
                 clientCloseCalls, upCloseCalls, dataVars, crashed, load, upOpened>>
  /\ UNCHANGED browserVars

\* openaiWs.on('close'): the upstream connection is gone.
OpenaiOnClose(c) ==
  /\ ~crashed
  /\ upReadyState[c] \in {"OPEN", "CLOSING"}
  /\ upReadyState' = [upReadyState EXCEPT ![c] = "CLOSED"]
  /\ upInbound' = [upInbound EXCEPT ![c] = FALSE]
  /\ IF clientReadyState[c] = "OPEN"
     THEN /\ clientReadyState' = [clientReadyState EXCEPT ![c] = WsClose(@)]
          /\ clientCloseCalls' = [clientCloseCalls EXCEPT ![c] = Append(@, PlainCloseArgs)]
     ELSE UNCHANGED <<clientReadyState, clientCloseCalls>>
  /\ UNCHANGED <<connectionCount, connectionId, clientInbound, upCloseCalls,
                 dataVars, crashed, load, upOpened>>
  /\ UNCHANGED browserVars

\* Variant: close() is called whatever the state of the socket.
UpstreamClosableAlways(readyState) == TRUE

\* Lines 209 and 224: openaiWs.readyState === WebSocket.OPEN
UpstreamClosable(readyState) == readyState = "OPEN"

\* clientWs.on('error'): ws has already left OPEN when it emits the event.
ClientOnError(c) ==
  /\ ~crashed
  /\ \/ clientReadyState[c] = "OPEN"
     \/ clientReadyState[c] = "CLOSING" /\ clientInbound[c]
  /\ clientReadyState' = [clientReadyState EXCEPT ![c] = "CLOSING"]
  /\ clientInbound' = [clientInbound EXCEPT ![c] = FALSE]
  /\ IF UpstreamClosable(upReadyState[c])
     THEN /\ upReadyState' = [upReadyState EXCEPT ![c] = WsClose(@)]
          /\ upCloseCalls' = [upCloseCalls EXCEPT ![c] = @ + 1]
     ELSE UNCHANGED <<upReadyState, upCloseCalls>>
  /\ UNCHANGED <<connectionCount, connectionId, upInbound, clientCloseCalls,
                 dataVars, crashed, load, upOpened>>
  /\ UNCHANGED browserVars

\* The client's close frame arrives: clientWs becomes CLOSING, no event yet.
ClientCloseFrame(c) ==
  /\ ~crashed
  /\ clientReadyState[c] \in {"OPEN", "CLOSING"}
  /\ clientInbound[c]
  /\ clientReadyState' = [clientReadyState EXCEPT ![c] = "CLOSING"]
  /\ clientInbound' = [clientInbound EXCEPT ![c] = FALSE]
  /\ UNCHANGED <<connectionCount, connectionId, upReadyState, upInbound,
                 clientCloseCalls, upCloseCalls, dataVars, crashed, load, upOpened>>
  /\ UNCHANGED browserVars

\* clientWs.on('close'): the client connection is gone.
ClientOnClose(c) ==
  /\ ~crashed
  /\ clientReadyState[c] \in {"OPEN", "CLOSING"}
  /\ clientReadyState' = [clientReadyState EXCEPT ![c] = "CLOSED"]
  /\ clientInbound' = [clientInbound EXCEPT ![c] = FALSE]
  /\ IF UpstreamClosable(upReadyState[c])
     THEN /\ upReadyState' = [upReadyState EXCEPT ![c] = WsClose(@)]
          /\ upCloseCalls' = [upCloseCalls EXCEPT ![c] = @ + 1]
     ELSE UNCHANGED <<upReadyState, upCloseCalls>>
  /\ UNCHANGED <<connectionCount, connectionId, upInbound, clientCloseCalls,
                 dataVars, crashed, load, upOpened>>
  /\ UNCHANGED browserVars

Next ==
  \E c \in Chans :
    \/ Accept(c)
    \/ ClientOnMessage(c)
    \/ OpenaiOnMessage(c)
    \/ OpenaiOnOpen(c)
    \/ OpenaiOnError(c)
    \/ OpenaiCloseFrame(c)
    \/ OpenaiOnClose(c)
    \/ ClientOnError(c)
    \/ ClientCloseFrame(c)
    \/ ClientOnClose(c)

Spec == Init /\ [][Next]_vars

SpecTwo == InitTwo /\ [][Next]_vars

----------------------------------------------------------------------------
\* The browser client.  The relay is not accepting connections in these
\* runs; its variables keep their initial values.

InitBrowser ==
  /\ InitWith([conns |-> 0, clientMsgs |-> 0, upMsgs |-> 0, upTypes |-> {},
               clientBinary |-> FALSE, upBinary |-> FALSE])
  /\ VoiceChatIdle
  /\ BrowserInit
  /\ CodecIdle /\ PcmIdle /\ RoomsIdle

\* The tools of the switch in executeFunctionCall
Functions == {"getCurrentWeather", "getCurrentTime", "searchWikipedia"}

\* What a response.function_call_arguments.done event can carry: a name
\* that is a tool or not, an arguments string that is JSON or not, and, for
\* a tool that is reached, whether its implementation returns or throws.
CallInputs ==
  {in \in [name : Functions \cup {"unknownFunction"}, argsOk : BOOLEAN,
           impl : {"returns", "throws"}] :
     in.impl = "throws" => (in.argsOk /\ in.name \in Functions)}

NoResult == [settled |-> "pending", error |-> FALSE]

\* Variant: the switch is not inside a try block.
ExecuteFunctionCallUncaught(functionName, argsOk, impl) ==
  IF ~argsOk THEN [settled |-> "resolved", error |-> TRUE]
  ELSE IF functionName \notin Functions
    THEN [settled |-> "resolved", error |-> TRUE]
  ELSE IF impl = "throws" THEN [settled |-> "rejected", error |-> TRUE]
  ELSE [settled |-> "resolved", error |-> FALSE]

\* executeFunctionCall: how the returned promise settles
ExecuteFunctionCall(functionName, argsOk, impl) ==
  IF ~argsOk THEN [settled |-> "resolved", error |-> TRUE]
  ELSE IF functionName \notin Functions
    THEN [settled |-> "resolved", error |-> TRUE]
  ELSE IF impl = "throws" THEN [settled |-> "resolved", error |-> TRUE]
  ELSE [settled |-> "resolved", error |-> FALSE]

\* Variant: the guard of the send operations is missing.
CanSendAlways(ws) == TRUE

\* if (!this.ws || this.ws.readyState !== WebSocket.OPEN) return
CanSend(ws) == ~(ws = "null" \/ ws # "OPEN")

FunctionCallOutput(callId, result) ==
  [type |-> "conversation.item.create", item |-> "function_call_output",
   call_id |-> callId, error |-> result.error]

ResponseCreate ==
  [type |-> "response.create", item |-> "", call_id |-> 0, error |-> FALSE]

AudioAppend ==
  [type |-> "input_audio_buffer.append", item |-> "", call_id |-> 0,
   error |-> FALSE]

\* Variant: the response is not requested.
FunctionResultOutputOnly(callId, result) ==
  <<FunctionCallOutput(callId, result)>>

\* The two messages of sendFunctionResult, in the order of the send calls
FunctionResultMessages(callId, result) ==
  <<FunctionCallOutput(callId, result), ResponseCreate>>

\* The events of OpenAIManager for which the bridge registers a handler
\* that sets the audio status, and the tool-call event
BridgeEvents == {"speechStarted", "speechStopped", "audioResponseDone", "functionCall"}

\* Variant: the tool-call handler shows the processing status.
UpdateAudioStatusOnToolCall(status, event) ==
  CASE event = "speechStarted" -> "listening"
    [] event = "speechStopped" -> "processing"
    [] event = "audioResponseDone" -> "idle"
    [] OTHER -> "processing"

\* The text the bridge's handler of the event leaves in the audio-status
\* element: Listening, Processing, Ready; the functionCall handler does not
\* call updateAudioStatus.
UpdateAudioStatus(status, event) ==
  CASE event = "speechStarted" -> "listening"
    [] event = "speechStopped" -> "processing"
    [] event = "audioResponseDone" -> "idle"
    [] OTHER -> status

\* handleMessage, case response.function_call_arguments.done: the event is
\* emitted to the bridge's handler, which calls executeFunctionCall and
\* suspends at its await.  The call_id of the k-th request is k.
OnFunctionCall ==
  /\ bws = "OPEN"
  /\ Len(calls) < MaxCalls
  /\ \E in \in CallInputs :
       calls' = Append(calls, [name |-> in.name, argsOk |-> in.argsOk,
                               impl |-> in.impl, status |-> "running",
                               result |-> NoResult])
  /\ UNCHANGED <<bws, bsent, bthrown, audioContext, audioQueue, isPlaying,
                 playing, started, deltas>>
  /\ audioStatus' = UpdateAudioStatus(audioStatus, "functionCall")
  /\ UNCHANGED <<relayVars, sessionVars, pureVars>>

\* The bridge's handler resumes after await executeFunctionCall(...) and
\* calls sendFunctionResult.  Calls in flight complete in any order.
FunctionCallDone(k) ==
  /\ k \in 1..Len(calls)
  /\ calls[k].status = "running"
  /\ LET r == ExecuteFunctionCall(calls[k].name, calls[k].argsOk, calls[k].impl)
     IN /\ calls' = [calls EXCEPT ![k].status = "done", ![k].result = r]
        /\ IF r.settled = "rejected"
             THEN bthrown' = TRUE /\ bsent' = bsent
           ELSE IF ~CanSend(bws)
             THEN UNCHANGED <<bthrown, bsent>>
           ELSE IF bws = "null"    \* this.ws.send on null: TypeError
             THEN bthrown' = TRUE /\ bsent' = bsent
           ELSE /\ bsent' = SendAll(bws, bsent, FunctionResultMessages(k, r))
                /\ UNCHANGED bthrown
  /\ UNCHANGED <<bws, audioContext, audioQueue, isPlaying, playing, started,
                 deltas>>
  /\ audioStatus' = UpdateAudioStatus(audioStatus, "functionCall")
  /\ UNCHANGED <<relayVars, sessionVars, pureVars>>

AudioSends == Len(SelectSeq(bsent, LAMBDA m : m.type = "input_audio_buffer.append"))

\* Bridge: a userAudio chunk from the microphone goes to sendAudio.
SendAudio ==
  /\ AudioSends < MaxAudioSends
  /\ IF ~CanSend(bws) THEN UNCHANGED <<bthrown, bsent>>
     ELSE IF bws = "null" THEN bthrown' = TRUE /\ bsent' = bsent
     ELSE bsent' = WsSend(bws, bsent, AudioAppend) /\ UNCHANGED bthrown
  /\ UNCHANGED <<bws, calls, audioContext, audioQueue, isPlaying, playing,
                 started, deltas>>
  /\ UNCHANGED <<relayVars, audioStatus, sessionVars, pureVars>>

\* handleDisconnect: OpenAIManager.close() (ws.close(); ws = null),
\* LivekitManager.disconnect(), the variables set to null, the status texts
\* and the buttons.  A source that is
\* playing may or may not fire its ended callback afterwards.
HandleDisconnect ==
  /\ isConnected
  /\ bws' = "null"
  /\ room' = "disconnected"
  /\ audioContext' = FALSE
  /\ audioQueue' = <<>>
  /\ isPlaying' = FALSE
  /\ isConnected' = FALSE
  /\ openaiManager' = "null"
  /\ audioStatus' = "inactive"
  /\ connectBtn' = [disabled |-> FALSE, display |-> "block"]
  /\ UNCHANGED <<bsent, calls, bthrown, playing, started, deltas>>
  /\ UNCHANGED <<connectStep, timers, connects, configureCalls>>
  /\ UNCHANGED <<relayVars, sessionVars, codecVars, pcmVars, roomVars, vcVars>>

\* The relay closes the connection: readyState becomes CLOSED, onclose
\* emits 'disconnected'; this.ws keeps the closed socket.
ServerClose ==
  /\ bws = "OPEN"
  /\ bws' = "CLOSED"
  /\ UNCHANGED <<bsent, calls, bthrown, audioContext, audioQueue, isPlaying,
                 playing, started, deltas>>
  /\ UNCHANGED <<relayVars, audioStatus, sessionVars, pureVars>>

\* What a response.audio.delta event can carry: base64 of PCM16 samples,
\* text that does not decode to samples, or no delta at all.
Payloads == {"pcm", "undecodable", "absent"}

\* Variant: the newest buffer is taken.
ShiftFromEnd(queue) ==
  [item |-> Last(queue), rest |-> SubSeq(queue, 1, Len(queue) - 1)]

\* this.audioQueue.shift()
Shift(queue) == [item |-> Head(queue), rest |-> Tail(queue)]

\* playNextInQueue on the given queue: the new queue, the new isPlaying and
\* the buffers handed to source.start() (none or one)
PlayNextInQueue(queue) ==
  IF Len(queue) = 0
    THEN [audioQueue |-> queue, isPlaying |-> FALSE, start |-> <<>>]
    ELSE [audioQueue |-> Shift(queue).rest, isPlaying |-> TRUE,
          start |-> <<Shift(queue).item>>]

\* The effect of playNextInQueue on the playback state
DoPlayNext(queue, stillPlaying) ==
  LET r == PlayNextInQueue(queue)
  IN /\ audioQueue' = r.audioQueue
     /\ isPlaying' = r.isPlaying
     /\ started' = started \o r.start
     /\ playing' = stillPlaying \cup {r.start[i] : i \in 1..Len(r.start)}

\* Variant: playAudio starts the buffer whatever is playing.
StartsNowAlways(nowPlaying) == TRUE

\* Line 239: if (!this.isPlaying) this.playNextInQueue()
StartsNow(nowPlaying) == ~nowPlaying

\* handleMessage, case response.audio.delta, then the bridge's audioResponse
\* handler and playAudio.  The buffer of the n-th delta is n.
OnAudioDelta ==
  /\ bws = "OPEN"
  /\ Len(deltas) < MaxDeltas
  /\ \E payload \in Payloads :
       LET n == Len(deltas) + 1
       IN /\ deltas' = Append(deltas, [n |-> n, payload |-> payload])
          /\ IF payload = "absent" \/ ~audioContext \/ payload = "undecodable"
               THEN UNCHANGED <<audioQueue, isPlaying, started, playing>>
             ELSE IF ~StartsNow(isPlaying)
               THEN /\ audioQueue' = Append(audioQueue, n)
                    /\ UNCHANGED <<isPlaying, started, playing>>
             ELSE DoPlayNext(Append(audioQueue, n), playing)
  /\ UNCHANGED <<bws, bsent, calls, bthrown, audioContext>>
  /\ UNCHANGED <<relayVars, audioStatus, sessionVars, pureVars>>

\* source.onended of a buffer that is playing
OnEnded(n) ==
  /\ n \in playing
  /\ DoPlayNext(audioQueue, playing \ {n})
  /\ UNCHANGED <<bws, bsent, calls, bthrown, audioContext, deltas>>
  /\ UNCHANGED <<relayVars, audioStatus, sessionVars, pureVars>>

\* handleMessage, cases input_audio_buffer.speech_started,
\* input_audio_buffer.speech_stopped and response.audio.done: the event is
\* emitted and the bridge's handler sets the audio status.
OnStatusEvent ==
  /\ bws = "OPEN"
  /\ \E event \in BridgeEvents \ {"functionCall"} :
       audioStatus' = UpdateAudioStatus(audioStatus, event)
  /\ UNCHANGED <<relayVars, coreVars, sessionVars, pureVars>>

GreetingItem ==
  [type |-> "conversation.item.create", item |-> "message", call_id |-> 0,
   error |-> FALSE]

\* The two messages of sendGreeting, in the order of the send calls
GreetingMessages == <<GreetingItem, ResponseCreate>>

\* Variant: the greeting does not wait for the session.
GreetingAllowedAlways(ready) == TRUE

\* Line 267: if (!this.sessionReady) the greeting is deferred
GreetingAllowed(ready) == ready

\* sendGreeting called as the id-th call: what it leaves in the handler
\* list of 'sessionReady' and in the messages sent, and whether it throws
RunSendGreeting(id, ws, ready, handlers, sent) ==
  IF ~CanSend(ws)
    THEN [handlers |-> handlers, sent |-> sent, thrown |-> FALSE]
  ELSE IF ~GreetingAllowed(ready)
    THEN [handlers |-> Append(handlers, id), sent |-> sent, thrown |-> FALSE]
  ELSE IF ws = "null"    \* this.ws.send on null: TypeError
    THEN [handlers |-> handlers, sent |-> sent, thrown |-> TRUE]
  ELSE [handlers |-> handlers, sent |-> SendAll(ws, sent, GreetingMessages),
        thrown |-> FALSE]

\* handlers.splice(handlers.indexOf(onceHandler), 1)
Splice(handlers, id) == SelectSeq(handlers, LAMBDA h : h # id)

\* emit('sessionReady'): handlers.forEach over the list, from index i, with
\* the length len read when forEach began.  Every handler of this event is
\* a onceHandler made by sendGreeting: it calls sendGreeting again and then
\* removes itself from the list that is being iterated.
RECURSIVE EmitSessionReady(_, _, _, _, _, _)
EmitSessionReady(ws, handlers, i, len, sent, thrown) ==
  IF i > len \/ i > Len(handlers)
    THEN [handlers |-> handlers, sent |-> sent, thrown |-> thrown]
    ELSE LET id == handlers[i]
             r == RunSendGreeting(id, ws, TRUE, handlers, sent)
         IN IF r.thrown
              THEN [handlers |-> r.handlers, sent |-> r.sent, thrown |-> TRUE]
              ELSE EmitSessionReady(ws, Splice(r.handlers, id), i + 1, len,
                                    r.sent, thrown)

\* The callback of a greeting timer set by handleConnect:
\* if (openaiManager) openaiManager.sendGreeting()
GreetingTimer ==
  /\ timers > 0
  /\ timers' = timers - 1
  /\ IF openaiManager = "null"
       THEN UNCHANGED <<greetingCalls, eventHandlers, bsent, bthrown>>
       ELSE /\ greetingCalls' = greetingCalls + 1
            /\ LET r == RunSendGreeting(greetingCalls', bws, sessionReady,
                                        eventHandlers, bsent)
               IN /\ eventHandlers' = r.handlers
                  /\ bsent' = r.sent
                  /\ bthrown' = (bthrown \/ r.thrown)
  /\ UNCHANGED <<bws, calls, audioContext, audioQueue, isPlaying, playing,
                 started, deltas, audioStatus, sessionReady, sessionUpdates>>
  /\ UNCHANGED <<isConnected, openaiManager, connectStep, connectBtn, room,
                 connects, configureCalls>>
  /\ UNCHANGED <<relayVars, codecVars, pcmVars, roomVars, vcVars>>

\* sendGreeting is called on the manager.
SendGreeting ==
  /\ greetingCalls < MaxGreetingCalls
  /\ greetingCalls' = greetingCalls + 1
  /\ LET r == RunSendGreeting(greetingCalls', bws, sessionReady,
                              eventHandlers, bsent)
     IN /\ eventHandlers' = r.handlers
        /\ bsent' = r.sent
        /\ bthrown' = (bthrown \/ r.thrown)
  /\ UNCHANGED <<bws, calls, audioContext, audioQueue, isPlaying, playing,
                 started, deltas, audioStatus, sessionReady, sessionUpdates>>
  /\ UNCHANGED <<relayVars, pureVars>>

\* handleMessage, case session.updated: sessionReady = true, then
\* emit('sessionUpdated') (no handler) and emit('sessionReady').  An
\* exception of a handler is caught by handleMessage's try block.
OnSessionUpdated ==
  /\ bws = "OPEN"
  /\ sessionUpdates < MaxSessionUpdates
  /\ sessionUpdates' = sessionUpdates + 1
  /\ sessionReady' = TRUE
  /\ LET r == EmitSessionReady(bws, eventHandlers, 1, Len(eventHandlers),
                               bsent, FALSE)
     IN /\ eventHandlers' = r.handlers
        /\ bsent' = r.sent
  /\ UNCHANGED <<bws, calls, bthrown, audioContext, audioQueue, isPlaying,
                 playing, started, deltas, audioStatus, greetingCalls>>
  /\ UNCHANGED <<relayVars, pureVars>>

SessionUpdate ==
  [type |-> "session.update", item |-> "", call_id |-> 0, error |-> FALSE]

\* Variant: configureSession sends nothing.
RunConfigureSessionSilent(ws, sent) ==
  IF ~CanSend(ws) THEN [sent |-> sent, outcome |-> "thrown"]
  ELSE [sent |-> sent, outcome |-> "sent"]

\* configureSession: throws when the socket is absent or not open,
\* otherwise sends session.update
RunConfigureSession(ws, sent) ==
  IF ~CanSend(ws) THEN [sent |-> sent, outcome |-> "thrown"]
  ELSE [sent |-> WsSend(ws, sent, SessionUpdate), outcome |-> "sent"]

\* Variant: close() leaves the socket as it is.
OpenAIManagerCloseNothing(ws) == ws

\* OpenAIManager.close(): if (this.ws) { this.ws.close(); this.ws = null }
OpenAIManagerClose(ws) == "null"

\* The page as loaded: no manager, the connect button enabled.
InitApp ==
  /\ InitWith([conns |-> 0, clientMsgs |-> 0, upMsgs |-> 0, upTypes |-> {},
               clientBinary |-> FALSE, upBinary |-> FALSE])
  /\ VoiceChatIdle
  /\ CodecIdle /\ PcmIdle /\ RoomsIdle
  /\ bws = "null"
  /\ bsent = <<>>
  /\ calls = <<>>
  /\ bthrown = FALSE
  /\ audioContext = FALSE
  /\ audioQueue = <<>>
  /\ isPlaying = FALSE
  /\ playing = {}
  /\ started = <<>>
  /\ deltas = <<>>
  /\ audioStatus = "inactive"
  /\ sessionReady = FALSE
  /\ eventHandlers = <<>>
  /\ greetingCalls = 0
  /\ sessionUpdates = 0
  /\ isConnected = FALSE
  /\ openaiManager = "null"
  /\ connectStep = "idle"
  /\ connectBtn = [disabled |-> FALSE, display |-> "block"]
  /\ room = "none"
  /\ timers = 0
  /\ connects = 0
  /\ configureCalls = <<>>

\* The catch block of handleConnect: the connect button is enabled again,
\* the status texts are reset, openaiManager.close() and
\* livekitManager.disconnect() are called.  ws is the readyState of the
\* manager's socket when the block is entered.
CatchCleanup(ws) ==
  /\ connectStep' = "idle"
  /\ connectBtn' = [connectBtn EXCEPT !.disabled = FALSE]
  /\ audioStatus' = "inactive"
  /\ bws' = OpenAIManagerClose(ws)
  /\ room' = "disconnected"
  /\ audioContext' = FALSE
  /\ audioQueue' = <<>>
  /\ isPlaying' = FALSE
  /\ UNCHANGED <<isConnected, openaiManager, timers, connects>>

\* handleConnect up to its first await: the button is disabled, the
\* managers are constructed and connect() creates the socket.  bsent holds
\* from now on what is handed to the send of the new manager's socket.
HandleConnect ==
  /\ ~isConnected
  /\ ~connectBtn.disabled /\ connectBtn.display = "block"
  /\ connectStep = "idle"
  /\ connects < MaxConnects
  /\ connects' = connects + 1
  /\ connectBtn' = [connectBtn EXCEPT !.disabled = TRUE]
  /\ openaiManager' = "set"
  /\ bws' = "CONNECTING"
  /\ bsent' = <<>>
  /\ sessionReady' = FALSE
  /\ eventHandlers' = <<>>
  /\ room' = "new"
  /\ audioContext' = FALSE
  /\ audioQueue' = <<>>
  /\ isPlaying' = FALSE
  /\ connectStep' = "openai"
  /\ UNCHANGED <<calls, bthrown, playing, started, deltas, audioStatus,
                 greetingCalls, sessionUpdates, isConnected, timers,
                 configureCalls>>
  /\ UNCHANGED <<relayVars, codecVars, pcmVars, roomVars, vcVars>>

\* ws.onopen: connect() resolves, handleConnect calls configureSession and
\* then livekitManager.connect.
WsOnOpen ==
  /\ connectStep = "openai"
  /\ bws = "CONNECTING"
  /\ LET r == RunConfigureSession("OPEN", bsent)
     IN /\ bsent' = r.sent
        /\ configureCalls' = Append(configureCalls, r.outcome)
        /\ IF r.outcome = "thrown"
             THEN CatchCleanup("OPEN")
             ELSE /\ bws' = "OPEN"
                  /\ connectStep' = "livekit"
                  /\ UNCHANGED <<connectBtn, audioStatus, room, audioContext,
                                 audioQueue, isPlaying, isConnected,
                                 openaiManager, timers, connects>>
  /\ UNCHANGED <<calls, bthrown, playing, started, deltas, sessionVars>>
  /\ UNCHANGED <<relayVars, codecVars, pcmVars, roomVars, vcVars>>

\* ws.onerror while connecting: connect() rejects and the catch block runs.
WsOnError ==
  /\ connectStep = "openai"
  /\ bws = "CONNECTING"
  /\ CatchCleanup("CLOSED")
  /\ UNCHANGED <<bsent, calls, bthrown, playing, started, deltas, sessionVars,
                 configureCalls>>
  /\ UNCHANGED <<relayVars, codecVars, pcmVars, roomVars, vcVars>>

\* How livekitManager.connect can settle: resolved; rejected before the
\* room is connected (token request, room.connect); rejected after it
\* (event handlers, AudioContext).
LivekitOutcomes == {"resolved", "rejectedNoRoom", "rejectedWithRoom"}

\* livekitManager.connect settles; on success handleConnect calls
\* publishMicrophone.
LivekitConnectSettles ==
  /\ connectStep = "livekit"
  /\ \E outcome \in LivekitOutcomes :
       IF outcome = "resolved"
         THEN /\ room' = "connected"
              /\ audioContext' = TRUE
              /\ audioStatus' = "settingUp"
              /\ connectStep' = "microphone"
              /\ UNCHANGED <<bws, connectBtn, audioQueue, isPlaying,
                             isConnected, openaiManager, timers, connects>>
         ELSE CatchCleanup(bws)
  /\ UNCHANGED <<bsent, calls, bthrown, playing, started, deltas, sessionVars,
                 configureCalls>>
  /\ UNCHANGED <<relayVars, codecVars, pcmVars, roomVars, vcVars>>

\* How publishMicrophone and setupBridge can end
MicrophoneOutcomes == {"resolved", "rejected", "bridgeThrows"}

\* publishMicrophone settles; on success setupBridge is called,
\* isConnected is set and the greeting timer is started.
PublishMicrophoneSettles ==
  /\ connectStep = "microphone"
  /\ \E outcome \in MicrophoneOutcomes :
       IF outcome = "resolved"
         THEN /\ audioStatus' = "idle"
              /\ isConnected' = TRUE
              /\ connectBtn' = [connectBtn EXCEPT !.display = "none"]
              /\ timers' = timers + 1
              /\ connectStep' = "idle"
              /\ UNCHANGED <<bws, room, audioContext, audioQueue, isPlaying,
                             openaiManager, connects>>
         ELSE CatchCleanup(bws)
  /\ UNCHANGED <<bsent, calls, bthrown, playing, started, deltas, sessionVars,
                 configureCalls>>
  /\ UNCHANGED <<relayVars, codecVars, pcmVars, roomVars, vcVars>>

\* Bridge: the userAudio handler registered by setupBridge runs.
OnUserAudio == isConnected /\ SendAudio

NextApp ==
  \/ HandleConnect
  \/ WsOnOpen
  \/ WsOnError
  \/ LivekitConnectSettles
  \/ PublishMicrophoneSettles
  \/ GreetingTimer
  \/ OnSessionUpdated
  \/ OnUserAudio
  \/ HandleDisconnect
  \/ ServerClose

\* The page: connect, disconnect and connect again
SpecApp == InitApp /\ [][NextApp]_vars

\* The values of OpenAIManager.ws: null, or a socket in one of its states
WsValues == {"null", "CONNECTING", "OPEN", "CLOSING", "CLOSED"}

\* A tool call whose execution is awaited by the bridge's handler
RunningCalls ==
  {<<[name |-> in.name, argsOk |-> in.argsOk, impl |-> in.impl,
      status |-> "running", result |-> NoResult]>> : in \in CallInputs}

\* An OpenAIManager whose socket is absent or in any state, with the session
\* ready or not, and possibly a tool call in progress; its operations are
\* then called.
InitManager ==
  /\ InitWith([conns |-> 0, clientMsgs |-> 0, upMsgs |-> 0, upTypes |-> {},
               clientBinary |-> FALSE, upBinary |-> FALSE])
  /\ VoiceChatIdle
  /\ CodecIdle /\ PcmIdle /\ RoomsIdle
  /\ bws \in WsValues
  /\ sessionReady \in BOOLEAN
  /\ calls \in {<<>>} \cup RunningCalls
  /\ bsent = <<>>
  /\ bthrown = FALSE
  /\ audioContext = FALSE
  /\ audioQueue = <<>>
  /\ isPlaying = FALSE
  /\ playing = {}
  /\ started = <<>>
  /\ deltas = <<>>
  /\ audioStatus = "inactive"
  /\ eventHandlers = <<>>
  /\ greetingCalls = 0
  /\ sessionUpdates = 0
  /\ isConnected = FALSE
  /\ openaiManager = "set"
  /\ connectStep = "idle"
  /\ connectBtn = [disabled |-> FALSE, display |-> "block"]
  /\ room = "none"
  /\ timers = 0
  /\ connects = 0
  /\ configureCalls = <<>>

\* configureSession is called on the manager.
ConfigureSession ==
  /\ Len(configureCalls) < MaxConfigureCalls
  /\ LET r == RunConfigureSession(bws, bsent)
     IN /\ bsent' = r.sent
        /\ configureCalls' = Append(configureCalls, r.outcome)
  /\ UNCHANGED <<bws, calls, bthrown, audioContext, audioQueue, isPlaying,
                 playing, started, deltas, audioStatus, sessionVars>>
  /\ UNCHANGED <<isConnected, openaiManager, connectStep, connectBtn, room,
                 timers, connects>>
  /\ UNCHANGED <<relayVars, codecVars, pcmVars, roomVars, vcVars>>

NextManager ==
  \/ ConfigureSession
  \/ SendAudio
  \/ SendGreeting
  \/ \E k \in 1..MaxCalls : FunctionCallDone(k)

\* The send operations of one OpenAIManager
SpecManager == InitManager /\ [][NextManager]_vars

NextTools ==
  \/ OnFunctionCall
  \/ \E k \in 1..MaxCalls : FunctionCallDone(k)
  \/ SendAudio
  \/ HandleDisconnect
  \/ ServerClose

NextPlayback ==
  \/ OnAudioDelta
  \/ \E n \in 1..MaxDeltas : OnEnded(n)
  \/ HandleDisconnect
  \/ ServerClose

NextStatus ==
  \/ OnStatusEvent
  \/ OnFunctionCall
  \/ \E k \in 1..MaxCalls : FunctionCallDone(k)
  \/ HandleDisconnect
  \/ ServerClose

NextGreeting ==
  \/ GreetingTimer
  \/ OnSessionUpdated
  \/ SendAudio
  \/ HandleDisconnect
  \/ ServerClose

\* A session in which the model requests tool calls
SpecTools == InitBrowser /\ [][NextTools]_vars

\* A session in which the model streams audio
SpecPlayback == InitBrowser /\ [][NextPlayback]_vars

\* A session with speech events and tool calls
SpecStatus == InitBrowser /\ [][NextStatus]_vars

\* A session in which the greeting is requested
SpecGreeting == InitBrowser /\ [][NextGreeting]_vars

TypeOK ==
  /\ connectionCount \in 0..Cardinality(Chans)
  /\ \A c \in Chans :
       /\ clientReadyState[c] \in {"NONE", "OPEN", "CLOSING", "CLOSED"}
       /\ upReadyState[c] \in {"NONE", "CONNECTING", "OPEN", "CLOSING", "CLOSED"}
       /\ Len(rcvdClient[c]) <= load.clientMsgs
       /\ Len(rcvdUp[c]) <= load.upMsgs

----------------------------------------------------------------------------
\* The base64 conversions of sendAudio and playAudio.  A text is a sequence
\* of characters of the base64 alphabet, written as their values 0..63, and
\* of the padding character, written Pad.

ByteValues == {0, 1, 63, 64, 127, 128, 254, 255}

ByteSeqs(n) == UNION {[1..k -> ByteValues] : k \in 0..n}

Pad == 64

\* String.fromCharCode(code): a UTF-16 code unit
FromCharCode(code) == code % 65536

\* Variant: the third character keeps five bits.
SextetsNarrow(n) ==
  <<n \div 262144, (n \div 4096) % 64, (n \div 64) % 32, n % 64>>

\* The four characters btoa makes of 24 bits
Sextets(n) ==
  <<n \div 262144, (n \div 4096) % 64, (n \div 64) % 64, n % 64>>

\* btoa(binaryString): three characters of the string give four of the
\* text; one or two remaining characters are padded.
RECURSIVE Btoa(_)
Btoa(str) ==
  IF Len(str) = 0 THEN <<>>
  ELSE IF Len(str) = 1
    THEN LET q == Sextets(str[1] * 65536) IN <<q[1], q[2], Pad, Pad>>
  ELSE IF Len(str) = 2
    THEN LET q == Sextets(str[1] * 65536 + str[2] * 256)
         IN <<q[1], q[2], q[3], Pad>>
  ELSE Sextets(str[1] * 65536 + str[2] * 256 + str[3])
         \o Btoa(SubSeq(str, 4, Len(str)))

\* atob, first step: a text whose length is a multiple of four loses one
\* or two padding characters at its end.
StripPad(text) ==
  IF Len(text) > 0 /\ Len(text) % 4 = 0 /\ text[Len(text)] = Pad
    THEN IF text[Len(text) - 1] = Pad
           THEN SubSeq(text, 1, Len(text) - 2)
           ELSE SubSeq(text, 1, Len(text) - 1)
    ELSE text

\* atob throws InvalidCharacterError unless this holds of the stripped text
AtobAccepts(text) ==
  /\ Len(text) % 4 # 1
  /\ \A i \in 1..Len(text) : text[i] # Pad

\* atob, last step: four characters give three of the binary string; two
\* or three remaining characters give one or two, the spare bits dropped.
RECURSIVE Atob(_)
Atob(text) ==
  IF Len(text) < 2 THEN <<>>
  ELSE IF Len(text) = 2
    THEN <<(text[1] * 64 + text[2]) \div 16>>
  ELSE IF Len(text) = 3
    THEN LET n == text[1] * 4096 + text[2] * 64 + text[3]
         IN <<n \div 1024, (n \div 4) % 256>>
  ELSE LET n == text[1] * 262144 + text[2] * 4096 + text[3] * 64 + text[4]
       IN <<n \div 65536, (n \div 256) % 256, n % 256>>
            \o Atob(SubSeq(text, 5, Len(text)))

InitBase64 ==
  /\ InitWith([conns |-> 0, clientMsgs |-> 0, upMsgs |-> 0, upTypes |-> {},
               clientBinary |-> FALSE, upBinary |-> FALSE])
  /\ VoiceChatIdle
  /\ BrowserInit
  /\ PcmIdle /\ RoomsIdle
  /\ codecStep = "input"
  /\ audioData \in ByteSeqs(MaxBytes)
  /\ base64Audio = <<>>
  /\ decodedBytes = <<>>

\* sendAudio, line 216: btoa(String.fromCharCode(...Array.from(buffer)))
EncodeBase64 ==
  /\ codecStep = "input"
  /\ codecStep' = "encoded"
  /\ base64Audio' = Btoa([i \in 1..Len(audioData) |-> FromCharCode(audioData[i])])
  /\ UNCHANGED <<audioData, decodedBytes>>
  /\ UNCHANGED <<relayVars, coreVars, audioStatus, sessionVars, pcmVars, roomVars, appVars, vcVars>>

\* playAudio, lines 217-221: atob, then bytes[i] = binaryString.charCodeAt(i)
\* into a Uint8Array
DecodeBase64 ==
  /\ codecStep = "encoded"
  /\ LET text == StripPad(base64Audio)
     IN IF AtobAccepts(text)
          THEN /\ codecStep' = "decoded"
               /\ decodedBytes' = [i \in 1..Len(Atob(text)) |-> Atob(text)[i] % 256]
          ELSE /\ codecStep' = "failed"
               /\ UNCHANGED decodedBytes
  /\ UNCHANGED <<audioData, base64Audio>>
  /\ UNCHANGED <<relayVars, coreVars, audioStatus, sessionVars, pcmVars, roomVars, appVars, vcVars>>

NextBase64 ==
  \/ EncodeBase64
  \/ DecodeBase64

SpecBase64 == InitBase64 /\ [][NextBase64]_vars

----------------------------------------------------------------------------
\* The sample conversions of LivekitManager.  A sample is a record: nan
\* says that it is NaN, otherwise its value is num / SampleDenominator.  A
\* result of int16ToFloat32 is the fraction num / den.

SampleValues ==
  {[nan |-> FALSE, num |-> n] : n \in (-2 * SampleDenominator)..(2 * SampleDenominator)}
    \cup {[nan |-> TRUE, num |-> 0]}

SampleSeqs(n) == UNION {[1..k -> SampleValues] : k \in 0..n}

Min(a, b) == IF a <= b THEN a ELSE b

Max(a, b) == IF a >= b THEN a ELSE b

\* The integer part of a / b, b positive (the fraction is dropped)
Truncate(a, b) == IF a >= 0 THEN a \div b ELSE -((-a) \div b)

\* Storing a number in an Int16Array: integer part, modulo 2^16, signed
ToInt16(a, b) == ((Truncate(a, b) + 32768) % 65536) - 32768

\* Variant: the sample is not clamped.
ClampNone(num) == num

\* Line 276: Math.max(-1, Math.min(1, float32Array[i]))
Clamp(num) == Max(-SampleDenominator, Min(SampleDenominator, num))

\* Variant: one factor for both signs.
ScaleSymmetric(num) == NegativeFullScale

\* Line 277: s < 0 ? s * 0x8000 : s * 0x7fff
Scale(num) == IF num < 0 THEN NegativeFullScale ELSE PositiveFullScale

\* floatTo16BitPCM; NaN passes Math.max and Math.min, is not below 0, and
\* is stored as 0.
FloatTo16BitPCM(samples) ==
  [i \in 1..Len(samples) |->
     IF samples[i].nan THEN 0
     ELSE LET s == Clamp(samples[i].num)
          IN ToInt16(s * Scale(s), SampleDenominator)]

\* int16ToFloat32, line 288
Int16ToFloat32(ints) ==
  [i \in 1..Len(ints) |->
     [num |-> ints[i],
      den |-> IF ints[i] < 0 THEN NegativeFullScale ELSE PositiveFullScale]]

InitPcm ==
  /\ InitWith([conns |-> 0, clientMsgs |-> 0, upMsgs |-> 0, upTypes |-> {},
               clientBinary |-> FALSE, upBinary |-> FALSE])
  /\ VoiceChatIdle
  /\ BrowserInit
  /\ CodecIdle /\ RoomsIdle
  /\ pcmStep = "input"
  /\ float32Array \in SampleSeqs(MaxSamples)
  /\ int16Array = <<>>
  /\ float32Back = <<>>

EncodePcm ==
  /\ pcmStep = "input"
  /\ pcmStep' = "encoded"
  /\ int16Array' = FloatTo16BitPCM(float32Array)
  /\ UNCHANGED <<float32Array, float32Back>>
  /\ UNCHANGED <<relayVars, coreVars, audioStatus, sessionVars, codecVars, roomVars, appVars, vcVars>>

DecodePcm ==
  /\ pcmStep = "encoded"
  /\ pcmStep' = "decoded"
  /\ float32Back' = Int16ToFloat32(int16Array)
  /\ UNCHANGED <<float32Array, int16Array>>
  /\ UNCHANGED <<relayVars, coreVars, audioStatus, sessionVars, codecVars, roomVars, appVars, vcVars>>

NextPcm ==
  \/ EncodePcm
  \/ DecodePcm

SpecPcm == InitPcm /\ [][NextPcm]_vars

----------------------------------------------------------------------------
\* The room-creation endpoint.  One request is handled; the handler is an
\* async function, so it runs in steps that end at its awaits.

Requests ==
  [method : {"GET", "POST"},
   body : {"undefined", "object"},
   user_name : {"absent", "empty", "number", "name"},
   createRoom : {"ok", "throws"},
   createDispatch : {"ok", "throws"},
   toJwt : {"ok", "throws"}]

\* Variant: an empty or non-string name is let through.
UserNameAcceptedIfPresent(user_name) == user_name # "absent"

\* Line 21: !(!user_name || typeof user_name !== 'string')
UserNameAccepted(user_name) == user_name = "name"

\* Variant: the dispatch is awaited without a try block of its own.
AfterDispatchUncaught(outcome) == IF outcome = "ok" THEN "toJwt" ELSE "failed"

\* Lines 62-80: where the handler goes when createDispatch has settled:
\* the catch block logs and the handler continues.
AfterDispatch(outcome) == "toJwt"

Response(status, body) == [status |-> status, body |-> body]

\* Lines 119-124: the outer catch
ServerError == Response(500, "error")

InitRooms ==
  /\ InitWith([conns |-> 0, clientMsgs |-> 0, upMsgs |-> 0, upTypes |-> {},
               clientBinary |-> FALSE, upBinary |-> FALSE])
  /\ VoiceChatIdle
  /\ BrowserInit
  /\ CodecIdle /\ PcmIdle
  /\ req \in Requests
  /\ handlerStep = "start"
  /\ roomCreated = FALSE
  /\ agentDispatched = FALSE
  /\ tokenIssued = FALSE
  /\ res = Response(0, "none")

\* Lines 14-42: the method, the body and the name are looked at, then
\* createRoom is called.  Destructuring an undefined body throws inside the
\* try block.
HandlerStart ==
  /\ handlerStep = "start"
  /\ IF req.method # "POST"
       THEN handlerStep' = "done" /\ res' = Response(405, "error")
     ELSE IF req.body = "undefined"
       THEN handlerStep' = "done" /\ res' = ServerError
     ELSE IF ~UserNameAccepted(req.user_name)
       THEN handlerStep' = "done" /\ res' = Response(400, "error")
     ELSE handlerStep' = "createRoom" /\ UNCHANGED res
  /\ UNCHANGED <<req, roomCreated, agentDispatched, tokenIssued>>
  /\ UNCHANGED <<relayVars, coreVars, audioStatus, sessionVars, codecVars, pcmVars, appVars, vcVars>>

\* Lines 42-68: createRoom settles; then createDispatch is called.
CreateRoomSettles ==
  /\ handlerStep = "createRoom"
  /\ IF req.createRoom = "ok"
       THEN /\ roomCreated' = TRUE
            /\ handlerStep' = "createDispatch"
            /\ UNCHANGED res
       ELSE /\ handlerStep' = "done"
            /\ res' = ServerError
            /\ UNCHANGED roomCreated
  /\ UNCHANGED <<req, agentDispatched, tokenIssued>>
  /\ UNCHANGED <<relayVars, coreVars, audioStatus, sessionVars, codecVars, pcmVars, appVars, vcVars>>

\* Lines 68-98: createDispatch settles; then the token is built and
\* toJwt is called.
CreateDispatchSettles ==
  /\ handlerStep = "createDispatch"
  /\ agentDispatched' = (req.createDispatch = "ok")
  /\ IF AfterDispatch(req.createDispatch) = "toJwt"
       THEN handlerStep' = "toJwt" /\ UNCHANGED res
       ELSE handlerStep' = "done" /\ res' = ServerError
  /\ UNCHANGED <<req, roomCreated, tokenIssued>>
  /\ UNCHANGED <<relayVars, coreVars, audioStatus, sessionVars, codecVars, pcmVars, appVars, vcVars>>

\* Lines 98-117: toJwt settles; the response is sent.
ToJwtSettles ==
  /\ handlerStep = "toJwt"
  /\ handlerStep' = "done"
  /\ IF req.toJwt = "ok"
       THEN /\ tokenIssued' = TRUE
            /\ res' = Response(200, "room_name,token,livekit_url")
       ELSE /\ res' = ServerError
            /\ UNCHANGED tokenIssued
  /\ UNCHANGED <<req, roomCreated, agentDispatched>>
  /\ UNCHANGED <<relayVars, coreVars, audioStatus, sessionVars, codecVars, pcmVars, appVars, vcVars>>

NextRooms ==
  \/ HandlerStart
  \/ CreateRoomSettles
  \/ CreateDispatchSettles
  \/ ToJwtSettles

SpecRooms == InitRooms /\ [][NextRooms]_vars

----------------------------------------------------------------------------
\* The VoiceChat component: connect, disconnect and the events of the Room.

\* Who can be in the room besides the user
Participants == {"agent-1", "agent-2", "user-2"}

\* participant.identity.startsWith('agent-')
IsAgent(p) == p \in {"agent-1", "agent-2"}

\* setupParticipantDataListener: the value it leaves in primaryAgentRef
SetupParticipantDataListener(primary, p) ==
  IF primary # "null" /\ p # primary THEN primary
  ELSE IF primary = "null" /\ IsAgent(p) THEN p
  ELSE primary

\* TrackSubscribed handler, audio track: the value it leaves in
\* primaryAgentRef (lines 205-208)
PrimaryOnAudioTrack(primary, p) ==
  IF primary = "null" /\ IsAgent(p) THEN p ELSE primary

\* TrackSubscribed handler, audio track: the early return at lines 211-214
\* is not taken and track.attach() is reached
AttachesAudio(primary, p) == ~(primary # "null" /\ p # primary)

\* The component as mounted; the other programs are idle.
InitVoiceChat ==
  /\ InitApp
  /\ VoiceChatIdle

\* The catch block of connect
ConnectCatch ==
  /\ error' = "set"
  /\ connectionStatus' = "disconnected"
  /\ connectPos' = "idle"

\* connect up to await createRoom(userName); the button is rendered while
\* status is 'disconnected'.
Connect ==
  /\ connectionStatus = "disconnected"
  /\ connectPos = "idle"
  /\ attempts < MaxAttempts
  /\ attempts' = attempts + 1
  /\ connectionStatus' = "connecting"
  /\ error' = "null"
  /\ primaryAgentRef' = "null"
  /\ connectPos' = "createRoom"
  /\ remoteParticipants' = {}
  /\ subscribed' = {}
  /\ attached' = {}
  /\ UNCHANGED <<roomState, rooms>>
  /\ UNCHANGED <<relayVars, coreVars, audioStatus, sessionVars, codecVars,
                 pcmVars, roomVars, appVars>>

\* createRoom settles; on success the Room is made, the handlers are
\* registered and newRoom.connect is called.
CreateRoomReturns ==
  /\ connectPos = "createRoom"
  /\ \E ok \in BOOLEAN :
       IF ok
         THEN /\ rooms' = [rooms EXCEPT ![attempts] = "new"]
              /\ connectPos' = "connect"
              /\ UNCHANGED <<connectionStatus, error>>
         ELSE ConnectCatch /\ UNCHANGED rooms
  /\ UNCHANGED <<roomState, primaryAgentRef, remoteParticipants, subscribed,
                 attached, attempts>>
  /\ UNCHANGED <<relayVars, coreVars, audioStatus, sessionVars, codecVars,
                 pcmVars, roomVars, appVars>>

\* newRoom.connect settles.  On success the Connected handler has run
\* (status, the primary agent among the participants already in the room,
\* their data listeners) and setMicrophoneEnabled is called.
RoomConnectSettles ==
  /\ connectPos = "connect"
  /\ \/ /\ rooms' = [rooms EXCEPT ![attempts] = "connected"]
        /\ connectionStatus' = "connected"
        /\ connectPos' = "microphone"
        /\ \E present \in SUBSET Participants :
             /\ remoteParticipants' = present
             /\ LET agents == {p \in present : IsAgent(p)}
                IN IF agents # {} /\ primaryAgentRef = "null"
                     THEN primaryAgentRef' \in agents
                     ELSE UNCHANGED primaryAgentRef
        /\ UNCHANGED error
     \/ /\ ConnectCatch
        /\ UNCHANGED <<rooms, remoteParticipants, primaryAgentRef>>
  /\ UNCHANGED <<roomState, subscribed, attached, attempts>>
  /\ UNCHANGED <<relayVars, coreVars, audioStatus, sessionVars, codecVars,
                 pcmVars, roomVars, appVars>>

\* setMicrophoneEnabled(true) settles; on success setRoom(newRoom).
SetMicrophoneEnabledSettles ==
  /\ connectPos = "microphone"
  /\ \E ok \in BOOLEAN :
       IF ok
         THEN /\ roomState' = attempts
              /\ connectPos' = "idle"
              /\ UNCHANGED <<connectionStatus, error>>
         ELSE ConnectCatch /\ UNCHANGED roomState
  /\ UNCHANGED <<rooms, primaryAgentRef, remoteParticipants, subscribed,
                 attached, attempts>>
  /\ UNCHANGED <<relayVars, coreVars, audioStatus, sessionVars, codecVars,
                 pcmVars, roomVars, appVars>>

\* RoomEvent.ParticipantConnected
ParticipantConnected(p) ==
  /\ attempts > 0 /\ rooms[attempts] = "connected"
  /\ p \notin remoteParticipants
  /\ remoteParticipants' = remoteParticipants \cup {p}
  /\ primaryAgentRef' = SetupParticipantDataListener(primaryAgentRef, p)
  /\ UNCHANGED <<connectionStatus, error, roomState, rooms, connectPos,
                 subscribed, attached, attempts>>
  /\ UNCHANGED <<relayVars, coreVars, audioStatus, sessionVars, codecVars,
                 pcmVars, roomVars, appVars>>

\* RoomEvent.TrackSubscribed for the audio track of p
TrackSubscribed(p) ==
  /\ attempts > 0 /\ rooms[attempts] = "connected"
  /\ p \in remoteParticipants
  /\ p \notin subscribed
  /\ subscribed' = subscribed \cup {p}
  /\ primaryAgentRef' = PrimaryOnAudioTrack(primaryAgentRef, p)
  /\ attached' = IF AttachesAudio(primaryAgentRef', p)
                   THEN attached \cup {p} ELSE attached
  /\ UNCHANGED <<connectionStatus, error, roomState, rooms, connectPos,
                 remoteParticipants, attempts>>
  /\ UNCHANGED <<relayVars, coreVars, audioStatus, sessionVars, codecVars,
                 pcmVars, roomVars, appVars>>

\* RoomEvent.TrackUnsubscribed for the audio track of p: track.detach()
TrackUnsubscribed(p) ==
  /\ attempts > 0 /\ rooms[attempts] = "connected"
  /\ p \in subscribed
  /\ subscribed' = subscribed \ {p}
  /\ attached' = attached \ {p}
  /\ UNCHANGED <<connectionStatus, error, roomState, rooms, connectPos,
                 primaryAgentRef, remoteParticipants, attempts>>
  /\ UNCHANGED <<relayVars, coreVars, audioStatus, sessionVars, codecVars,
                 pcmVars, roomVars, appVars>>

\* The room of the last connect is disconnected by the server or the
\* network: RoomEvent.Disconnected, after the tracks were unsubscribed.
RoomDisconnected ==
  /\ attempts > 0 /\ rooms[attempts] = "connected"
  /\ rooms' = [rooms EXCEPT ![attempts] = "disconnected"]
  /\ connectionStatus' = "disconnected"
  /\ remoteParticipants' = {}
  /\ subscribed' = {}
  /\ attached' = {}
  /\ UNCHANGED <<error, roomState, connectPos, primaryAgentRef, attempts>>
  /\ UNCHANGED <<relayVars, coreVars, audioStatus, sessionVars, codecVars,
                 pcmVars, roomVars, appVars>>

\* disconnect: the button is rendered while status is 'connected'; the
\* Room it disconnects is the one in the state room.
Disconnect ==
  /\ connectionStatus = "connected"
  /\ roomState # 0
  /\ rooms' = [rooms EXCEPT ![roomState] = "disconnected"]
  /\ roomState' = 0
  /\ connectionStatus' = "disconnected"
  /\ IF roomState = attempts
       THEN remoteParticipants' = {} /\ subscribed' = {} /\ attached' = {}
       ELSE UNCHANGED <<remoteParticipants, subscribed, attached>>
  /\ UNCHANGED <<error, connectPos, primaryAgentRef, attempts>>
  /\ UNCHANGED <<relayVars, coreVars, audioStatus, sessionVars, codecVars,
                 pcmVars, roomVars, appVars>>

NextVoiceChat ==
  \/ Connect
  \/ CreateRoomReturns
  \/ RoomConnectSettles
  \/ SetMicrophoneEnabledSettles
  \/ \E p \in Participants : ParticipantConnected(p)
  \/ \E p \in Participants : TrackSubscribed(p)
  \/ \E p \in Participants : TrackUnsubscribed(p)
  \/ RoomDisconnected
  \/ Disconnect

SpecVoiceChat == InitVoiceChat /\ [][NextVoiceChat]_vars

----------------------------------------------------------------------------
\* Properties of the relay channel

\* The step delivers one more message of the upstream link to channel c
UpDelivered(c) == Len(rcvdUp'[c]) = Len(rcvdUp[c]) + 1

\* The step delivers one more message of the client link to channel c
ClientDelivered(c) == Len(rcvdClient'[c]) = Len(rcvdClient[c]) + 1

C2_FlushOnceInOrder ==
  [][\A c \in Chans :
       /\ flushCount'[c] <= 1
       /\ (/\ UpDelivered(c)
           /\ JSONParses(Last(rcvdUp'[c]))
           /\ MsgType(Last(rcvdUp'[c])) = "session.created"
           /\ ~sessionCreated[c]
           /\ clientReadyState[c] = "OPEN")
          => /\ sessionCreated'[c]
             /\ sentUp[c] = <<>>
             /\ sentUp'[c] = rcvdClient[c]
             /\ messageBuffer'[c] = <<>>
             /\ flushCount'[c] = (IF rcvdClient[c] = <<>> THEN 0 ELSE 1)]_vars

\* C2 witness: two messages were flushed and a second session.created came
C2_Witness ==
  \E c \in Chans :
    /\ sessionCreated[c]
    /\ flushCount[c] = 1
    /\ Len(sentUp[c]) = 2
    /\ Len(rcvdUp[c]) = 2
    /\ \A i \in 1..2 : MsgType(rcvdUp[c][i]) = "session.created"
    /\ Len(sentDown[c]) = 2

\* C3 (as claimed): once sessionCreated is true the buffer is never used
\* again, whatever the state of the upstream link.
C3_NeverQueuedAfterReady ==
  \A c \in Chans : sessionCreated[c] => messageBuffer[c] = <<>>

\* What one channel owns
ChanState(c) ==
  <<connectionId[c], clientReadyState[c], clientInbound[c], upReadyState[c],
    upInbound[c], messageBuffer[c], sessionCreated[c], sentUp[c], sentDown[c],
    clientCloseCalls[c], upCloseCalls[c], rcvdClient[c], rcvdUp[c],
    flushCount[c]>>

\* Every message of the sequence was produced on channel c, by the client
\* (up = FALSE) or by the upstream service (up = TRUE)
AllFrom(seq, c, up) ==
  \A i \in 1..Len(seq) : seq[i].from = c /\ (seq[i].type # "client") = up

\* C4: every step is a step of one channel and leaves the state of every
\* other channel unchanged, and what a channel buffers or sends upstream
\* comes from its own client, what it sends to its client from its own
\* upstream link.
C4_NoCrossTalk ==
  [][/\ \E c \in Chans : \A d \in Chans \ {c} : ChanState(d)' = ChanState(d)
     /\ \A c \in Chans :
          /\ AllFrom(sentUp'[c], c, FALSE)
          /\ AllFrom(messageBuffer'[c], c, FALSE)
          /\ AllFrom(sentDown'[c], c, TRUE)]_vars

\* C4 witness: two channels open at once, each having buffered, flushed and
\* forwarded its own traffic
C4_Witness ==
  \A c \in Chans :
    /\ clientReadyState[c] = "OPEN"
    /\ upReadyState[c] = "OPEN"
    /\ Len(sentUp[c]) = 1
    /\ Len(sentDown[c]) = 1
    /\ flushCount[c] = 1

\* C5 (as claimed): once the client link is closed the upstream link is
\* closing or closed, in whatever state it was.
C5_ClientCloseClosesUpstream ==
  \A c \in Chans :
    clientReadyState[c] = "CLOSED" => upReadyState[c] \in {"CLOSING", "CLOSED"}

\* C6 (as claimed): every close of the client link requested by the relay
\* carries a reason.
C6_ClientClosedWithReason ==
  \A c \in Chans :
    \A i \in 1..Len(clientCloseCalls[c]) : clientCloseCalls[c][i].reason # ""

\* C7 (as claimed): a channel that has handled session.created or
\* session.updated (forwarded it to its client) is ready.
C7_EitherTypeSetsReady ==
  \A c \in Chans :
    \A i \in 1..Len(sentDown[c]) :
      (JSONParses(sentDown[c][i])
         /\ MsgType(sentDown[c][i]) \in {"session.created", "session.updated"})
        => sessionCreated[c]

\* C7 (amended): of the messages delivered while the client link is open,
\* session.created sets sessionCreated and sends the buffer in order; every
\* other one, session.updated included, leaves sessionCreated, the buffer and
\* what was sent upstream as they were.
C7_OnlySessionCreatedSetsReady ==
  [][\A c \in Chans :
       (UpDelivered(c) /\ clientReadyState[c] = "OPEN") =>
         IF JSONParses(Last(rcvdUp'[c])) /\ MsgType(Last(rcvdUp'[c])) = "session.created"
         THEN /\ sessionCreated'[c]
              /\ messageBuffer'[c] = <<>>
              /\ sentUp'[c] = sentUp[c] \o messageBuffer[c]
         ELSE /\ sessionCreated'[c] = sessionCreated[c]
              /\ messageBuffer'[c] = messageBuffer[c]
              /\ sentUp'[c] = sentUp[c]]_vars

\* C7 witness: session.updated came first and was forwarded, the channel is
\* not ready and its buffer still holds the client's message
C7_Witness ==
  \E c \in Chans :
    /\ Len(sentDown[c]) = 1
    /\ MsgType(sentDown[c][1]) = "session.updated"
    /\ ~sessionCreated[c]
    /\ Len(messageBuffer[c]) = 1

\* C8: what has been sent to the upstream link is a prefix of what has been
\* received from the client, in the same order.
C8_UpstreamOrderPreserved ==
  \A c \in Chans : IsPrefix(sentUp[c], rcvdClient[c])

\* C8 witness: two buffered messages have been flushed
C8_Witness ==
  \E c \in Chans :
    /\ flushCount[c] = 1
    /\ Len(sentUp[c]) = 2
    /\ Len(rcvdUp[c]) = 1

\* C9: what has been sent to the client is a prefix of what the upstream link
\* delivered, unmodified, and while the client link is open it is all of it,
\* whatever the types and whatever sessionCreated.
C9_DownstreamUnfiltered ==
  \A c \in Chans :
    /\ IsPrefix(sentDown[c], rcvdUp[c])
    /\ clientReadyState[c] = "OPEN" => sentDown[c] = rcvdUp[c]

\* C9 witness: a message that is not JSON and an error were forwarded to a
\* channel that is not ready
C9_Witness ==
  \E c \in Chans :
    /\ clientReadyState[c] = "OPEN"
    /\ ~sessionCreated[c]
    /\ Len(sentDown[c]) = 2
    /\ ~JSONParses(sentDown[c][1])
    /\ MsgType(sentDown[c][2]) = "error"

\* C10 (as claimed): a client message that arrives while the upstream link
\* is closing or closed changes nothing and throws nothing.
C10_LateClientMessageIsNoOp ==
  [][\A c \in Chans :
       (ClientDelivered(c) /\ upReadyState[c] \in {"CLOSING", "CLOSED"}) =>
         /\ messageBuffer'[c] = messageBuffer[c]
         /\ sessionCreated'[c] = sessionCreated[c]
         /\ sentUp'[c] = sentUp[c]
         /\ ~crashed']_vars

\* C23: the bytes playAudio decodes from the text sendAudio made of a
\* buffer are the bytes of that buffer.
C23_Base64RoundTrip ==
  /\ codecStep # "failed"
  /\ codecStep = "decoded" => decodedBytes = audioData

\* A buffer of four bytes has gone through both conversions; its last byte
\* is alone in a group that ends with two padding characters.
C23_Witness ==
  /\ codecStep = "decoded"
  /\ audioData = <<255, 0, 128, 254>>
  /\ Len(base64Audio) = 8
  /\ base64Audio[7] = Pad
  /\ base64Audio[8] = Pad

\* The distance of two integers
AbsDiff(a, b) == IF a >= b THEN a - b ELSE b - a

\* C24: for samples in [-1, 1], each sample that comes back from
\* int16ToFloat32(floatTo16BitPCM(s)) is within one step of the sample that
\* went in, a step being 1/32768 for a negative result and 1/32767
\* otherwise.
C24_PcmRoundTripWithinStep ==
  pcmStep = "decoded"
  => /\ Len(float32Back) = Len(float32Array)
     /\ \A i \in 1..Len(float32Array) :
          LET x == float32Array[i]
              y == float32Back[i]
          IN (~x.nan /\ x.num \in (-SampleDenominator)..SampleDenominator)
             => AbsDiff(x.num * y.den, y.num * SampleDenominator)
                  <= SampleDenominator

\* Two samples came back: full scale, and a negative one that is not a
\* multiple of the step.
C24_Witness ==
  /\ pcmStep = "decoded"
  /\ Len(float32Array) = 2
  /\ float32Array[1].num = SampleDenominator
  /\ float32Back[1] = [num |-> PositiveFullScale, den |-> PositiveFullScale]
  /\ float32Array[2].num = -3
  /\ float32Back[2].num * SampleDenominator # -3 * NegativeFullScale

\* C25: every result of floatTo16BitPCM is in -32768..32767; a sample of 1
\* or more gives 32767, a sample of -1 or less gives -32768, a sample in
\* between gives the integer part of the sample times 32768 if it is
\* negative and times 32767 otherwise, with the sign of the sample.
C25_ClampAndScale ==
  pcmStep \in {"encoded", "decoded"}
  => /\ Len(int16Array) = Len(float32Array)
     /\ \A i \in 1..Len(float32Array) :
          LET x == float32Array[i]
              v == int16Array[i]
          IN /\ v \in (-NegativeFullScale)..PositiveFullScale
             /\ ~x.nan
                => /\ x.num >= SampleDenominator => v = PositiveFullScale
                   /\ x.num <= -SampleDenominator => v = -NegativeFullScale
                   /\ (x.num < 0 /\ x.num > -SampleDenominator)
                      => /\ v = Truncate(x.num * NegativeFullScale, SampleDenominator)
                         /\ v <= 0
                   /\ (x.num >= 0 /\ x.num < SampleDenominator)
                      => /\ v = Truncate(x.num * PositiveFullScale, SampleDenominator)
                         /\ v >= 0

\* A sample of 2 and a sample of -2 were converted.
C25_Witness ==
  /\ pcmStep = "encoded"
  /\ Len(float32Array) = 2
  /\ float32Array[1] = [nan |-> FALSE, num |-> 2 * SampleDenominator]
  /\ float32Array[2] = [nan |-> FALSE, num |-> -2 * SampleDenominator]
  /\ int16Array = <<PositiveFullScale, -NegativeFullScale>>

\* C26: a room exists or a token has been issued only for a POST request
\* whose user_name is a non-empty string; another method is answered 405
\* and another name 400; and when the room and the token succeed the
\* answer is 200 with room name, token and URL, whether the agent dispatch
\* succeeded or not.
C26_RoomOnlyForValidPost ==
  /\ (roomCreated \/ tokenIssued \/ handlerStep \in {"createRoom", "createDispatch", "toJwt"})
     => (req.method = "POST" /\ req.user_name = "name")
  /\ tokenIssued => roomCreated
  /\ handlerStep = "done"
     => /\ req.method # "POST" => res = Response(405, "error")
        /\ (req.method = "POST" /\ req.body = "object" /\ req.user_name # "name")
           => res = Response(400, "error")
        /\ (/\ req.method = "POST" /\ req.body = "object" /\ req.user_name = "name"
            /\ req.createRoom = "ok" /\ req.toJwt = "ok")
           => /\ res = Response(200, "room_name,token,livekit_url")
              /\ roomCreated /\ tokenIssued
        /\ res.status = 200 => (roomCreated /\ tokenIssued)

\* The dispatch failed and the request was answered 200.
C26_Witness ==
  /\ handlerStep = "done"
  /\ req.createDispatch = "throws"
  /\ ~agentDispatched
  /\ roomCreated /\ tokenIssued
  /\ res = Response(200, "room_name,token,livekit_url")

\* The client link of c has left OPEN (closing handshake, error or close)
ClientGone(c) == clientReadyState[c] \in {"CLOSING", "CLOSED"}

\* C27: once the client socket of a channel has left OPEN, no step sends
\* anything to the channel's upstream socket; in particular a
\* session.created delivered afterwards leaves the buffer where it is.
C27_NoForwardAfterClientGone ==
  [][\A c \in Chans :
       ClientGone(c)
       => /\ sentUp'[c] = sentUp[c]
          /\ flushCount'[c] = flushCount[c]
          /\ UpDelivered(c) => messageBuffer'[c] = messageBuffer[c]]_vars

\* session.created was delivered after the client had gone: a message is
\* still in the buffer and nothing was sent upstream.
C27_Witness ==
  \E c \in Chans :
    /\ clientReadyState[c] = "CLOSED"
    /\ rcvdUp[c] # <<>>
    /\ JSONParses(Last(rcvdUp[c]))
    /\ IsSessionCreated(Last(rcvdUp[c]))
    /\ Len(messageBuffer[c]) = 1
    /\ sentUp[c] = <<>>
    /\ ~sessionCreated[c]

\* C28: the handler that sends the buffered messages has first sent the
\* session.created event to the client, and it sends the whole buffer in
\* the same step: the buffer is empty afterwards and no other message of the
\* channel is delivered in between.
C28_SessionCreatedBeforeFlush ==
  [][\A c \in Chans :
       flushCount'[c] = flushCount[c] + 1
       => /\ UpDelivered(c)
          /\ IsSessionCreated(Last(rcvdUp'[c]))
          /\ sentDown'[c] = Append(sentDown[c], Last(rcvdUp'[c]))
          /\ Len(sendOrder'[c]) = 1 + Len(messageBuffer[c])
          /\ sendOrder'[c][1] = "client"
          /\ \A i \in 2..Len(sendOrder'[c]) : sendOrder'[c][i] = "upstream"
          /\ upReadyState[c] = "OPEN"
               => sentUp'[c] = sentUp[c] \o messageBuffer[c]
          /\ messageBuffer'[c] = <<>>
          /\ rcvdClient'[c] = rcvdClient[c]]_vars

\* Two buffered messages were sent upstream by the handler of
\* session.created, after the event had gone to the client.
C28_Witness ==
  \E c \in Chans :
    /\ flushCount[c] = 1
    /\ sendOrder[c] = <<"client", "upstream", "upstream">>
    /\ Len(sentUp[c]) = 2
    /\ Len(sentDown[c]) = 1
    /\ IsSessionCreated(sentDown[c][1])
    /\ messageBuffer[c] = <<>>

----------------------------------------------------------------------------
\* Properties of the browser client

IsOutput(m) == m.type = "conversation.item.create" /\ m.item = "function_call_output"

\* Number of function_call_output items sent for call_id k
OutputsFor(k) == Len(SelectSeq(bsent, LAMBDA m : IsOutput(m) /\ m.call_id = k))

\* The inputs of call k make the tool fail
Fails(k) ==
  \/ ~calls[k].argsOk
  \/ calls[k].name \notin Functions
  \/ calls[k].impl = "throws"

\* C11: in what the client has sent, every function_call_output is directly
\* followed by a response.create and every response.create directly follows
\* a function_call_output; a call_id has no output while its tool runs, at
\* most one ever, and exactly one once its tool has finished on an open
\* socket, whether the tool failed or not and whatever other calls are in
\* flight.
C11_OneResultThenResponse ==
  /\ \A i \in 1..Len(bsent) :
       /\ IsOutput(bsent[i])
          => /\ i < Len(bsent)
             /\ bsent[i + 1].type = "response.create"
             /\ bsent[i].call_id \in 1..Len(calls)
       /\ bsent[i].type = "response.create" => (i > 1 /\ IsOutput(bsent[i - 1]))
  /\ \A k \in 1..Len(calls) :
       /\ OutputsFor(k) <= 1
       /\ calls[k].status = "running" => OutputsFor(k) = 0
       /\ (calls[k].status = "done" /\ bws = "OPEN") => OutputsFor(k) = 1

\* Two calls were in flight together, the first one's tool threw, the second
\* finished first, and a microphone chunk was sent as well.
C11_Witness ==
  /\ Len(calls) = 2
  /\ calls[1].argsOk /\ calls[1].name \in Functions /\ calls[1].impl = "throws"
  /\ ~Fails(2)
  /\ AudioSends = 1
  /\ \E i, j \in 1..Len(bsent) :
       /\ i < j
       /\ IsOutput(bsent[i]) /\ bsent[i].call_id = 2
       /\ IsOutput(bsent[j]) /\ bsent[j].call_id = 1
       /\ bsent[j + 1].type = "response.create"

\* C12: the promise of executeFunctionCall is never rejected: a finished
\* call has a resolved result, which has the error field when the name is
\* unknown, the arguments are not JSON or the tool threw; no rejection
\* reaches the handler, and the output that is submitted is that result.
C12_ExecuteNeverRejects ==
  /\ ~bthrown
  /\ \A k \in 1..Len(calls) :
       calls[k].status = "done"
       => /\ calls[k].result.settled = "resolved"
          /\ calls[k].result.error = Fails(k)
  /\ \A i \in 1..Len(bsent) :
       IsOutput(bsent[i])
       => /\ calls[bsent[i].call_id].status = "done"
          /\ bsent[i].error = Fails(bsent[i].call_id)

\* A call of an unknown function and a call whose tool threw have both been
\* answered with an error result.
C12_Witness ==
  /\ Len(calls) = 2
  /\ calls[1].argsOk /\ calls[1].name \notin Functions
  /\ calls[2].argsOk /\ calls[2].name \in Functions /\ calls[2].impl = "throws"
  /\ \A k \in 1..2 : calls[k].status = "done" /\ calls[k].result.error
  /\ \A k \in 1..2 : OutputsFor(k) = 1

\* The step finishes the tool of call k
Completes(k) ==
  /\ k \in 1..Len(calls)
  /\ calls[k].status = "running"
  /\ calls'[k].status = "done"

\* C13: when a tool finishes while the socket is absent or not open, the
\* step sends nothing and nothing is thrown.
C13_LateResultDiscarded ==
  [][\A k \in 1..MaxCalls :
       (Completes(k) /\ bws # "OPEN") => (bsent' = bsent /\ ~bthrown')]_vars

\* Two tools finished after handleDisconnect had closed the socket and set
\* this.ws to null; neither has an output and nothing was thrown.
C13_Witness ==
  /\ bws = "null"
  /\ Len(calls) = 2
  /\ \A k \in 1..2 : calls[k].status = "done" /\ OutputsFor(k) = 0
  /\ bsent = <<>>
  /\ ~bthrown

\* The delta carries audio that playAudio can decode
Playable(d) == d.payload = "pcm"

\* The buffers of the deltas received so far that carry audio, in order
PlayableBuffers ==
  LET ds == SelectSeq(deltas, Playable) IN [i \in 1..Len(ds) |-> ds[i].n]

\* C14: the buffers handed to source.start() are, in order and without
\* repetition, an initial part of the audio deltas received; while the
\* session is connected, the rest of them, in order, is the queue.
C14_PlaybackFifo ==
  /\ IsPrefix(started, PlayableBuffers)
  /\ audioContext => started \o audioQueue = PlayableBuffers
  /\ playing \subseteq {started[i] : i \in 1..Len(started)}

\* Three deltas arrived; the first has ended, the second is playing and the
\* third waits.
C14_Witness ==
  /\ Len(deltas) = 3
  /\ \A i \in 1..3 : Playable(deltas[i])
  /\ started = <<1, 2>>
  /\ audioQueue = <<3>>
  /\ playing = {2}
  /\ isPlaying

\* C21: a step that handles a tool-call request, the one that receives the
\* event as well as the one that submits the result, leaves the audio
\* status as it was, whatever it was.
C21_ToolCallKeepsAudioStatus ==
  [][(\/ Len(calls') = Len(calls) + 1
      \/ \E k \in 1..MaxCalls : Completes(k))
     => audioStatus' = audioStatus]_vars

\* A tool call has been received and answered, another one is running, and
\* the status is processing.
C21_Witness ==
  /\ Len(calls) = 2
  /\ calls[1].status = "done" /\ OutputsFor(1) = 1
  /\ calls[2].status = "running"
  /\ audioStatus = "processing"

\* C22: the audio status changes only from idle to listening, from
\* listening to processing and from processing to idle (the change to
\* inactive made by handleDisconnect is left aside).
C22_OnlyCycleTransitions ==
  [][(audioStatus' # audioStatus /\ audioStatus' # "inactive")
     => \/ audioStatus = "idle" /\ audioStatus' = "listening"
        \/ audioStatus = "listening" /\ audioStatus' = "processing"
        \/ audioStatus = "processing" /\ audioStatus' = "idle"]_vars

\* C29: at most one buffer is playing; a buffer is started either while
\* nothing is playing and isPlaying is false, or by the ended callback of
\* the only buffer that was playing; and when isPlaying is false and no
\* ended callback is pending the queue is empty.
C29_OneBufferPlaying ==
  [][/\ Cardinality(playing') <= 1
     /\ started' # started
        => /\ Len(started') = Len(started) + 1
           /\ playing' = {Last(started')}
           /\ \/ playing = {} /\ ~isPlaying
              \/ Cardinality(playing) = 1 /\ isPlaying /\ playing \cap playing' = {}
     /\ (~isPlaying' /\ playing' = {}) => audioQueue' = <<>>]_vars

\* The third buffer was started by the ended callback of the second, which
\* had waited in the queue.
C29_Witness ==
  /\ started = <<1, 2, 3>>
  /\ playing = {3}
  /\ isPlaying
  /\ audioQueue = <<>>
  /\ bws = "OPEN"

IsGreeting(m) == m.type = "conversation.item.create" /\ m.item = "message"

\* C30: a greeting is in the messages sent only after a session.updated has
\* been received, and its two messages are adjacent; sendGreeting called on
\* an open socket before that sends nothing and registers a handler; the
\* step that receives session.updated with a handler registered sends the
\* greeting.
C30_GreetingAfterSessionUpdated ==
  [][/\ \A i \in 1..Len(bsent') :
          IsGreeting(bsent'[i])
          => /\ sessionUpdates' > 0
             /\ i < Len(bsent')
             /\ bsent'[i + 1].type = "response.create"
     /\ (greetingCalls' = greetingCalls + 1 /\ ~sessionReady /\ bws = "OPEN")
        => /\ bsent' = bsent
           /\ eventHandlers' = Append(eventHandlers, greetingCalls')
     /\ (sessionUpdates' = sessionUpdates + 1 /\ eventHandlers # <<>>)
        => /\ IsPrefix(bsent \o GreetingMessages, bsent')
           /\ Len(eventHandlers') < Len(eventHandlers)]_vars

\* sendGreeting was called twice before session.updated (the second call's
\* handler is still registered); a microphone chunk went out first, and the
\* greeting followed when session.updated arrived.
C30_Witness ==
  /\ greetingCalls = 2
  /\ sessionUpdates = 1
  /\ eventHandlers = <<2>>
  /\ bsent = <<AudioAppend>> \o GreetingMessages
  /\ bws = "OPEN"

NumGreetings == Len(SelectSeq(bsent, IsGreeting))

\* C31: the messages sent on the socket of one connection hold at most one
\* greeting.
C31_AtMostOneGreeting == NumGreetings <= 1

\* C32: the first message sent on the socket of a connection is
\* session.update.
C32_SessionUpdateFirst ==
  bsent # <<>> => bsent[1] = SessionUpdate

\* A greeting and a microphone chunk have been sent after session.update.
C32_Witness ==
  /\ Len(bsent) = 4
  /\ bsent[1] = SessionUpdate
  /\ IsGreeting(bsent[2])
  /\ bsent[4] = AudioAppend
  /\ isConnected

\* C33: while the socket is absent or not open, no operation hands a
\* message to a socket, registers a handler or lets an exception escape,
\* and a configureSession call ends with an exception.
C33_NoSendUnlessOpen ==
  [][(bws = "null" \/ bws # "OPEN")
     => /\ bsent' = bsent
        /\ bthrown' = bthrown
        /\ eventHandlers' = eventHandlers
        /\ configureCalls' # configureCalls
           => configureCalls' = Append(configureCalls, "thrown")]_vars

\* On a closed socket configureSession was called and threw, sendGreeting
\* was called and the result of a tool call was handed to
\* sendFunctionResult: nothing was sent.
C33_Witness ==
  /\ bws = "CLOSED"
  /\ configureCalls = <<"thrown">>
  /\ greetingCalls = 1
  /\ Len(calls) = 1 /\ calls[1].status = "done"
  /\ bsent = <<>>
  /\ eventHandlers = <<>>
  /\ ~bthrown

\* C34: a step in which handleConnect fails leaves the manager's socket
\* closed and dropped, the room not connected, isConnected false and the
\* connect button enabled; isConnected becomes true only in the step that
\* completes the last await, and each await is reached only through the
\* success of the one before it.
C34_FailedConnectCleansUp ==
  [][/\ (connectStep # "idle" /\ connectStep' = "idle" /\ ~isConnected')
        => /\ bws' = "null"
           /\ room' = "disconnected"
           /\ ~connectBtn'.disabled
           /\ ~isConnected
     /\ (isConnected' /\ ~isConnected)
        => /\ connectStep = "microphone"
           /\ room = "connected"
           /\ Last(configureCalls) = "sent"
     /\ (connectStep' = "microphone" /\ connectStep # "microphone")
        => connectStep = "livekit" /\ room' = "connected"
     /\ (connectStep' = "livekit" /\ connectStep # "livekit")
        => /\ connectStep = "openai"
           /\ bws' = "OPEN"
           /\ Last(bsent') = SessionUpdate]_vars

\* The second connect failed after its socket had opened and session.update
\* had been sent: the socket is closed and dropped, the room is disconnected
\* and the button is enabled.
C34_Witness ==
  /\ connects = 2
  /\ connectStep = "idle"
  /\ ~isConnected
  /\ openaiManager = "set"
  /\ bws = "null"
  /\ room = "disconnected"
  /\ configureCalls = <<"sent", "sent">>
  /\ audioContext = FALSE
  /\ ~connectBtn.disabled

\* C35: the step in which a connect call fails sets status to
\* 'disconnected' and leaves the Room made by that call not connected.
C35_FailedConnectLeavesNoRoom ==
  [][(error = "null" /\ error' = "set")
     => /\ connectionStatus' = "disconnected"
        /\ rooms'[attempts] # "connected"]_vars

\* C36: at most one participant of the room has audio attached, and the
\* primary agent, once set, does not change before the next connect call.
C36_OneAudioOnePrimary ==
  [][/\ Cardinality(attached') <= 1
     /\ (primaryAgentRef # "null" /\ attempts' = attempts)
        => primaryAgentRef' = primaryAgentRef]_vars

\* C37: in the step that emits 'sessionReady', every handler registered
\* with once before it runs (each sends one greeting on the open socket)
\* and none stays registered.
C37_EveryOnceHandlerRunsOnFirstEmit ==
  [][sessionUpdates' = sessionUpdates + 1
     => /\ eventHandlers' = <<>>
        /\ Len(bsent') = Len(bsent) + Len(GreetingMessages) * Len(eventHandlers)]_vars

\* C15: when an error event of the upstream service is delivered, it is
\* sent to the client if the client link is open, and the step closes
\* neither link, calls close on neither socket, and leaves sessionCreated
\* and messageBuffer as they were.
C15_ErrorEventForwarded ==
  [][\A c \in Chans :
       (/\ UpDelivered(c)
        /\ JSONParses(Last(rcvdUp'[c]))
        /\ MsgType(Last(rcvdUp'[c])) = "error")
       => /\ clientReadyState[c] = "OPEN"
               => sentDown'[c] = Append(sentDown[c], Last(rcvdUp'[c]))
          /\ clientReadyState'[c] = clientReadyState[c]
          /\ upReadyState'[c] = upReadyState[c]
          /\ clientCloseCalls'[c] = clientCloseCalls[c]
          /\ upCloseCalls'[c] = upCloseCalls[c]
          /\ sessionCreated'[c] = sessionCreated[c]
          /\ messageBuffer'[c] = messageBuffer[c]
          /\ ~crashed']_vars

\* An error event was the last thing sent to the client, a client message is
\* still waiting, and both links are open with no close requested.
C15_Witness ==
  \E c \in Chans :
    /\ sentDown[c] # <<>>
    /\ JSONParses(Last(sentDown[c]))
    /\ MsgType(Last(sentDown[c])) = "error"
    /\ Last(rcvdUp[c]) = Last(sentDown[c])
    /\ clientReadyState[c] = "OPEN"
    /\ upReadyState[c] = "OPEN"
    /\ clientCloseCalls[c] = <<>>
    /\ upCloseCalls[c] = 0
    /\ Len(messageBuffer[c]) = 1
    /\ ~sessionCreated[c]

\* C16: a client message that is not JSON is never sent upstream, and no
\* exception escapes the handler that receives it.
C16_MalformedClientMessageDropped ==
  /\ ~crashed
  /\ \A c \in Chans : \A i \in 1..Len(sentUp[c]) : JSONParses(sentUp[c][i])

\* C17: when an upstream message that is not JSON is delivered, it is sent
\* to the client if the client link is open, sessionCreated and
\* messageBuffer keep their values, nothing is sent upstream and no
\* exception escapes the handler.
C17_MalformedUpstreamForwarded ==
  [][\A c \in Chans :
       (UpDelivered(c) /\ ~JSONParses(Last(rcvdUp'[c])))
       => /\ clientReadyState[c] = "OPEN"
               => sentDown'[c] = Append(sentDown[c], Last(rcvdUp'[c]))
          /\ sessionCreated'[c] = sessionCreated[c]
          /\ messageBuffer'[c] = messageBuffer[c]
          /\ sentUp'[c] = sentUp[c]
          /\ ~crashed']_vars

\* A message that is not JSON was the last thing sent to the client while a
\* client message is waiting for session.created.
C17_Witness ==
  \E c \in Chans :
    /\ sentDown[c] # <<>>
    /\ ~JSONParses(Last(sentDown[c]))
    /\ Last(rcvdUp[c]) = Last(sentDown[c])
    /\ Len(messageBuffer[c]) = 1
    /\ ~sessionCreated[c]
    /\ ~crashed

\* The upstream socket of c failed before it ever opened
ConnectFailed(c) ==
  ~upOpened[c] /\ upReadyState[c] \in {"CLOSING", "CLOSED"}

\* C18: when the upstream socket fails while connecting, the same step
\* calls close on an open client link with a non-empty reason; afterwards
\* the upstream socket is never connecting or open again.
C18_ConnectFailureClosesClient ==
  [][\A c \in Chans :
       /\ (upReadyState[c] = "CONNECTING" /\ ConnectFailed(c)'
             /\ clientReadyState[c] = "OPEN")
          => /\ clientReadyState'[c] = "CLOSING"
             /\ Len(clientCloseCalls'[c]) = Len(clientCloseCalls[c]) + 1
             /\ Last(clientCloseCalls'[c]).reason # ""
       /\ ConnectFailed(c)
          => /\ ConnectFailed(c)'
             /\ connectionId'[c] = connectionId[c]]_vars

\* The connect failed and the client link was closed with the reason.
C18_Witness ==
  \E c \in Chans :
    /\ ConnectFailed(c)
    /\ clientReadyState[c] \in {"CLOSING", "CLOSED"}
    /\ Len(clientCloseCalls[c]) = 1
    /\ clientCloseCalls[c][1].reason # ""
    /\ sentUp[c] = <<>>

\* The step is the handling of a close or error event of channel c: a link
\* changes state and no message is delivered.
CloseOrErrorEvent(c) ==
  /\ \/ clientReadyState[c] \in {"OPEN", "CLOSING"}
          /\ clientReadyState'[c] # clientReadyState[c]
     \/ upReadyState[c] \in {"OPEN", "CLOSING"}
          /\ upReadyState'[c] # upReadyState[c]
  /\ ~UpDelivered(c)
  /\ ~ClientDelivered(c)

\* C19: the relay calls close at most once on each socket of a channel,
\* whatever close and error events arrive; once it has called close on a
\* socket no later step calls it again, and the handling of a close or
\* error event changes neither the queue, the flag nor what was sent.
C19_CloseIdempotent ==
  [][\A c \in Chans :
       /\ Len(clientCloseCalls'[c]) <= 1
       /\ upCloseCalls'[c] <= 1
       /\ clientCloseCalls[c] # <<>> => clientCloseCalls'[c] = clientCloseCalls[c]
       /\ upCloseCalls[c] > 0 => upCloseCalls'[c] = upCloseCalls[c]
       /\ CloseOrErrorEvent(c)
          => /\ messageBuffer'[c] = messageBuffer[c]
             /\ sessionCreated'[c] = sessionCreated[c]
             /\ sentUp'[c] = sentUp[c]
             /\ sentDown'[c] = sentDown[c]]_vars

\* Both sockets of a channel have emitted 'close' and the relay has called
\* close once, on the upstream socket.
C19_Witness ==
  \E c \in Chans :
    /\ clientReadyState[c] = "CLOSED"
    /\ upReadyState[c] = "CLOSED"
    /\ clientCloseCalls[c] = <<>>
    /\ upCloseCalls[c] = 1

\* Channel c has been accepted
Accepted(c) == clientReadyState[c] # "NONE"

\* C20: connectionCount is the number of accepted connections: a step that
\* accepts one adds exactly one and gives the new value as its id, greater
\* than every id given before; every other step leaves the counter and the
\* ids alone; ids of different channels differ; and a step changes the
\* state of at most one channel.
C20_CounterOncePerAccept ==
  [][/\ connectionCount' = Cardinality({c \in Chans : Accepted(c)'})
     /\ \A c \in Chans :
          /\ (~Accepted(c) /\ Accepted(c)')
             => /\ connectionCount' = connectionCount + 1
                /\ connectionId'[c] = connectionCount'
                /\ \A d \in Chans :
                     Accepted(d) => connectionId[d] < connectionId'[c]
          /\ Accepted(c) => connectionId'[c] = connectionId[c]
          /\ \A d \in Chans :
               (c # d /\ Accepted(c)' /\ Accepted(d)')
               => connectionId'[c] # connectionId'[d]
          /\ ChanState(c)' # ChanState(c)
             => \A d \in Chans \ {c} : ChanState(d)' = ChanState(d)
     /\ (\A c \in Chans : Accepted(c)' = Accepted(c))
        => connectionCount' = connectionCount]_vars

\* The second connection was accepted after the first channel had already
\* received session.created and a client message.
C20_Witness ==
  \E c, d \in Chans :
    /\ connectionId[c] = 1
    /\ connectionId[d] = 2
    /\ connectionCount = 2
    /\ sessionCreated[c]
    /\ rcvdClient[c] # <<>>
    /\ upReadyState[d] = "CONNECTING"
    /\ rcvdClient[d] = <<>>

====
